---- MODULE Spec2Model ----
(***************************************************************************)
(* The round-robin reverse proxy of chapter_03_network/03_proxy            *)
(* (lab_06_reverse_proxy/src/main.rs, with the lab_05 reference solution). *)
(*                                                                         *)
(* A byte is a string: an ASCII byte is the one-character string of that   *)
(* character ("\r" and "\n" are CR and LF), and the four non-ASCII bytes   *)
(* the model uses are named "xFF", "xEF", "xBF" and "xBD".  A byte string  *)
(* (&[u8], Vec<u8>, and the text of a str) is a sequence of bytes.         *)
(***************************************************************************)
EXTENDS Integers, Sequences, FiniteSets, TLC

(***************************************************************************)
(* Bounds of the model.                                                    *)
(***************************************************************************)
\* Header lines of a request handed to the header rewriter.
MaxLines == 3
\* Successive applications of the header rewriter to one request.
MaxRewrites == 2
\* Connections the listener accepts.
MaxConns == 3
\* Sequential calls of next_backend_with_count by one caller.
MaxCalls == 6
\* Width of the round-robin counter (usize in the source: 32 or 64 bits).
CounterBits == 4
\* Size of the read buffer `tmp` ([0u8; 1024] in the source), scaled down
\* so that a message takes several reads.
TmpSize == 6
\* The cap on buffered bytes (64 * 1024 in the source), scaled down with
\* TmpSize so that a message can exceed it.
MaxBuffered == 48
\* Longest message of error_response besides the two of the source.
MaxMessage == 3
\* listener.accept() fails at most this many times.
MaxAcceptErrs == 1
\* Size of lab_05's read buffer `buffer` ([0u8; 4096] in the source), scaled
\* down so that a request can be longer than one read.
BufferSize == 32

None == -1

Min(a, b) == IF a < b THEN a ELSE b

(***************************************************************************)
(* Byte-string literals of the source.                                     *)
(***************************************************************************)
CRLF == <<"\r", "\n">>
CRLFCRLF == <<"\r", "\n", "\r", "\n">>
CommaSpace == <<",", " ">>
XffPrefix ==
    <<"x", "-", "f", "o", "r", "w", "a", "r", "d", "e", "d", "-", "f", "o", "r", ":">>
XffHeader ==
    <<"X", "-", "F", "o", "r", "w", "a", "r", "d", "e", "d", "-", "F", "o", "r", ":", " ">>
ContentLengthPrefix ==
    <<"c", "o", "n", "t", "e", "n", "t", "-", "l", "e", "n", "g", "t", "h", ":">>

(***************************************************************************)
(* Text helpers of the Rust standard library, as the source uses them.     *)
(***************************************************************************)
UpperCase ==
    <<"A", "B", "C", "D", "E", "F", "G", "H", "I", "J", "K", "L", "M",
      "N", "O", "P", "Q", "R", "S", "T", "U", "V", "W", "X", "Y", "Z">>
LowerCase ==
    <<"a", "b", "c", "d", "e", "f", "g", "h", "i", "j", "k", "l", "m",
      "n", "o", "p", "q", "r", "s", "t", "u", "v", "w", "x", "y", "z">>

\* u8::to_ascii_lowercase: only A..Z change.
LowerByte(b) ==
    IF \E i \in 1..26 : UpperCase[i] = b
    THEN LowerCase[CHOOSE i \in 1..26 : UpperCase[i] = b]
    ELSE b

to_ascii_lowercase(s) == [i \in 1..Len(s) |-> LowerByte(s[i])]

starts_with(s, p) == Len(s) >= Len(p) /\ SubSeq(s, 1, Len(p)) = p

\* The bytes 0x80..0xFF of the model.  0xFF never occurs in UTF-8; EF BF BD
\* is the encoding of U+FFFD and occurs in the model only as that triple.
NonAscii == {"xFF", "xEF", "xBF", "xBD"}
ReplacementChar == <<"xEF", "xBF", "xBD">>

\* String::from_utf8_lossy followed by as_bytes: valid UTF-8 passes, every
\* invalid byte becomes U+FFFD (three bytes).
RECURSIVE from_utf8_lossy(_)
from_utf8_lossy(s) ==
    IF s = <<>> THEN <<>>
    ELSE IF s[1] \notin NonAscii THEN <<s[1]>> \o from_utf8_lossy(Tail(s))
    ELSE IF Len(s) >= 3 /\ SubSeq(s, 1, 3) = ReplacementChar
         THEN ReplacementChar \o from_utf8_lossy(SubSeq(s, 4, Len(s)))
    ELSE ReplacementChar \o from_utf8_lossy(Tail(s))

\* slice.windows(n).position(|w| w == pat): 0-based, None when absent.
Position(s, pat) ==
    LET n == Len(pat)
        At(i) == SubSeq(s, i + 1, i + n) = pat
    IN  IF \E i \in 0..(Len(s) - n) : At(i)
        THEN CHOOSE i \in 0..(Len(s) - n) : At(i) /\ \A j \in 0..(i - 1) : ~At(j)
        ELSE None

\* windows(4).position(|w| w == b"\r\n\r\n")
header_end_of(s) == Position(s, CRLFCRLF)

\* str::split("\r\n"): the pieces between successive non-overlapping matches.
RECURSIVE split_crlf(_)
split_crlf(s) ==
    LET i == Position(s, CRLF)
    IN  IF i = None THEN <<s>>
        ELSE <<SubSeq(s, 1, i)>> \o split_crlf(SubSeq(s, i + 3, Len(s)))

(***************************************************************************)
(* add_x_forwarded_for (lab_06).                                           *)
(***************************************************************************)
\* Whether the loop treats `line` as the X-Forwarded-For header.
IsXffLine(line) == starts_with(to_ascii_lowercase(line), XffPrefix)

\* The for loop over the header lines: the bytes pushed to `out` and the
\* final value of `added`.
RECURSIVE XffLoop(_, _, _)
XffLoop(lines, client_addr, added) ==
    IF lines = <<>> THEN [out |-> <<>>, added |-> added]
    ELSE LET line == Head(lines)
             hit == ~added /\ IsXffLine(line)
             rest == XffLoop(Tail(lines), client_addr, added \/ hit)
         IN  [out |-> (IF hit THEN line \o CommaSpace \o client_addr \o CRLF
                              ELSE line \o CRLF) \o rest.out,
              added |-> rest.added]

\* A faulty variant: the new header goes right after the start line (as lab_05's
\* add_forwarded_header places it), not after the last header.
add_x_forwarded_for_after_start(request, client_addr) ==
    LET end_idx == header_end_of(request)
    IN  IF end_idx = None THEN request
        ELSE LET head == SubSeq(request, 1, end_idx)
                 body_with_delim == SubSeq(request, end_idx + 1, Len(request))
                 lines == split_crlf(from_utf8_lossy(head))
                 loop == XffLoop(lines, client_addr, FALSE)
             IN  (IF loop.added THEN loop.out
                  ELSE Head(lines) \o CRLF \o XffHeader \o client_addr \o CRLF
                       \o XffLoop(Tail(lines), client_addr, FALSE).out)
                 \o CRLF
                 \o SubSeq(body_with_delim, 5, Len(body_with_delim))

\* A faulty variant: a new header line is appended whether or not the request
\* holds an X-Forwarded-For header.
add_x_forwarded_for_always_new(request, client_addr) ==
    LET end_idx == header_end_of(request)
    IN  IF end_idx = None THEN request
        ELSE LET head == SubSeq(request, 1, end_idx)
                 body_with_delim == SubSeq(request, end_idx + 1, Len(request))
                 head_str == from_utf8_lossy(head)
                 loop == XffLoop(split_crlf(head_str), client_addr, TRUE)
             IN  loop.out
                 \o XffHeader \o client_addr \o CRLF
                 \o CRLF
                 \o SubSeq(body_with_delim, 5, Len(body_with_delim))

add_x_forwarded_for(request, client_addr) ==
    LET end_idx == header_end_of(request)
    IN  IF end_idx = None THEN request
        ELSE LET head == SubSeq(request, 1, end_idx)
                 body_with_delim == SubSeq(request, end_idx + 1, Len(request))
                 head_str == from_utf8_lossy(head)
                 loop == XffLoop(split_crlf(head_str), client_addr, FALSE)
             IN  loop.out
                 \o (IF ~loop.added THEN XffHeader \o client_addr \o CRLF ELSE <<>>)
                 \o CRLF
                 \o SubSeq(body_with_delim, 5, Len(body_with_delim))

(***************************************************************************)
(* Inputs of the header rewriter: a start line, header lines, the          *)
(* terminator and a body; or the same with no terminator.                  *)
(***************************************************************************)
RECURSIVE JoinCrlf(_)
JoinCrlf(lines) ==
    IF lines = <<>> THEN <<>>
    ELSE IF Len(lines) = 1 THEN lines[1]
    ELSE lines[1] \o CRLF \o JoinCrlf(Tail(lines))

RwStartLine == <<"G", " ", "/">>
RwLines ==
    { <<>>,
      <<"X", "-", "F", "o", "r", "w", "a", "r", "d", "e", "d", "-", "F", "o", "r", ":", " ", "1">>,
      <<"x", "-", "f", "o", "r", "w", "a", "r", "d", "e", "d", "-", "F", "O", "R", ":", "2">>,
      <<"X", "-", "F", "o", "r", "w", "a", "r", "d", "e", "d", "-", "F", "o", "r", ":", " ", "xFF">>,
      <<"H", "o", ":", "v">>,
      <<"K", ":", "xFF">>,
      <<"\r">> }
RwBodies == { <<>>, <<"b", "xFF">>, <<"\r", "\n", "\r", "\n", "x">> }
RwAddrs == { <<"9", ".", "5">>, <<"7">> }

RwHeads ==
    { <<RwStartLine>> \o h : h \in UNION { [1..n -> RwLines] : n \in 0..MaxLines } }
RwRequests ==
    { JoinCrlf(h) \o CRLFCRLF \o b : h \in RwHeads, b \in RwBodies }
    \cup { JoinCrlf(h) : h \in RwHeads }

(***************************************************************************)
(* Content-Length parsing, as read_request and forward_request do it.      *)
(***************************************************************************)
Digits == <<"0", "1", "2", "3", "4", "5", "6", "7", "8", "9">>
IsDigit(b) == \E i \in 1..10 : Digits[i] = b
DigitValue(b) == (CHOOSE i \in 1..10 : Digits[i] = b) - 1

\* str::trim: white space stripped at both ends.
WhiteSpace == {" ", "\t", "\r", "\n"}
RECURSIVE trim_start(_)
trim_start(s) ==
    IF s # <<>> /\ s[1] \in WhiteSpace THEN trim_start(Tail(s)) ELSE s
RECURSIVE trim_end(_)
trim_end(s) ==
    IF s # <<>> /\ s[Len(s)] \in WhiteSpace
    THEN trim_end(SubSeq(s, 1, Len(s) - 1)) ELSE s
trim(s) == trim_end(trim_start(s))

\* line.split(':').nth(1): the piece between the first colon and the next.
split_colon_nth1(line) ==
    LET i == Position(line, <<":">>)
        rest == SubSeq(line, i + 2, Len(line))
        j == Position(rest, <<":">>)
    IN  IF i = None THEN None
        ELSE IF j = None THEN rest ELSE SubSeq(rest, 1, j)

RECURSIVE DecimalValue(_)
DecimalValue(d) ==
    IF d = <<>> THEN 0
    ELSE 10 * DecimalValue(SubSeq(d, 1, Len(d) - 1)) + DigitValue(d[Len(d)])

\* str::parse::<usize>: an optional '+' and one or more digits; None is Err.
\* (The values of the model stay below usize::MAX.)
parse_usize(t) ==
    LET d == IF t # <<>> /\ t[1] = "+" THEN Tail(t) ELSE t
    IN  IF d = <<>> \/ \E i \in 1..Len(d) : ~IsDigit(d[i]) THEN None
        ELSE DecimalValue(d)

IsContentLengthLine(line) == starts_with(to_ascii_lowercase(line), ContentLengthPrefix)

\* read_request's loop over the header lines: content_length starts at 0 and
\* every Content-Length line sets it to its value, or to 0 when unparseable.
RECURSIVE request_content_length(_, _)
request_content_length(lines, content_length) ==
    IF lines = <<>> THEN content_length
    ELSE LET line == Head(lines)
             v == parse_usize(trim(split_colon_nth1(line)))
         IN  request_content_length(Tail(lines),
                 IF IsContentLengthLine(line)
                 THEN (IF v = None THEN 0 ELSE v)
                 ELSE content_length)

\* forward_request's loop: content_length starts at None and every
\* Content-Length line sets it to parse().ok().
RECURSIVE response_content_length(_, _)
response_content_length(lines, content_length) ==
    IF lines = <<>> THEN content_length
    ELSE LET line == Head(lines)
         IN  response_content_length(Tail(lines),
                 IF IsContentLengthLine(line)
                 THEN parse_usize(trim(split_colon_nth1(line)))
                 ELSE content_length)

\* The header lines of a buffer whose terminator starts at end_idx.
header_lines(buffer, end_idx) == split_crlf(from_utf8_lossy(SubSeq(buffer, 1, end_idx)))

(***************************************************************************)
(* The backend pool and the synthesized error response.                    *)
(***************************************************************************)
BACKENDS == <<"127.0.0.1:8081", "127.0.0.1:8082">>

CounterMax == 2 ^ CounterBits - 1

\* The message handle_client writes when forward_request returns None.
BAD_GATEWAY ==
    <<"H", "T", "T", "P", "/", "1", ".", "1", " ", "5", "0", "2", " ",
      "B", "a", "d", " ", "G", "a", "t", "e", "w", "a", "y", "\r", "\n",
      "C", "o", "n", "t", "e", "n", "t", "-", "L", "e", "n", "g", "t", "h", ":", " ", "1", "1",
      "\r", "\n", "\r", "\n",
      "B", "a", "d", " ", "G", "a", "t", "e", "w", "a", "y">>

(***************************************************************************)
(* The peers.  A client sends `bytes` and then leaves its side open        *)
(* ("open": a further read blocks), closes it ("eof": a further read       *)
(* returns 0) or resets the connection ("err": reads and writes fail).     *)
(* A backend accepts the connection or not, takes the request or not,      *)
(* sends `bytes` and then does one of the same three things.               *)
(***************************************************************************)
Client(addr, bytes, end) ==
    [present |-> TRUE, addr |-> addr, bytes |-> bytes, end |-> end]
NoClient == [present |-> FALSE, addr |-> <<>>, bytes |-> <<>>, end |-> "open"]
Backend(connect, write, bytes, end) ==
    [connect |-> connect, write |-> write, bytes |-> bytes, end |-> end]

\* peer_addr() failed.
NoAddr == <<>>

ReadErr == -2

\* The results a read of up to TmpSize bytes can have on a stream of which
\* `consumed` bytes were taken: a number of bytes (0 at end of stream) or
\* ReadErr; none when the read blocks.
read(stream, consumed) ==
    LET avail == Len(stream.bytes) - consumed
    IN  IF avail > 0 THEN 1..Min(TmpSize, avail)
        ELSE IF stream.end = "eof" THEN {0}
        ELSE IF stream.end = "err" THEN {ReadErr}
        ELSE {}

\* The bytes a read of n bytes appends to the buffer.
tmp(stream, consumed, n) == SubSeq(stream.bytes, consumed + 1, consumed + n)

VARIABLES
    COUNTER,        \* the round-robin counter
    start,          \* the value COUNTER started with
    calls,          \* what the sequential caller's calls returned, in order
    accepted,       \* connections accepted so far; they are numbered in order
    client,         \* client[c]: the client of connection c
    backend,        \* backend[c]: how the backend chosen for c behaves
    pc,             \* pc[c]: where c's handler is
    buf,            \* read_request's buf
    expected,       \* read_request's expected_len, None before it is known
    sel,            \* the index of the backend selected, None before
    count,          \* the request count next_backend_with_count returned
    bsock,          \* the backend socket: "none", "open" or "closed"
    sent,           \* the bytes written to the backend
    response,       \* forward_request's response
    respExpected,   \* forward_request's expected_len, None without Content-Length
    outcome,        \* how the handler ended or is about to end
    cmsg,           \* the message handed to the client's write_all
    cout,           \* the bytes the client received
    closedBefore,   \* closedBefore[c]: the handlers over when c was accepted
    attempts,       \* the backends c's handler called TcpStream::connect with
    acceptErrs      \* how many times listener.accept() returned Err

VARIABLES
    rwReq,      \* the request before the latest rewrite
    rwAddr,     \* the client address of the latest rewrite
    rwOut,      \* the request after the latest rewrite
    rwCount     \* rewrites applied so far

VARIABLES
    l5Status,   \* the status of lab_05's latest error_response call, 0 before
    l5Message,  \* its message
    l5Response  \* the bytes it returned

VARIABLES
    l5Counter,      \* lab_05's COUNTER
    l5RequestCount, \* lab_05's REQUEST_COUNT
    l5Client,       \* the client of lab_05's connection
    l5Backend,      \* how the backend selected for it behaves
    l5pc,           \* where lab_05's handle_client is
    l5Addr,         \* handle_client's client_addr
    l5Buffer,       \* handle_client's &buffer[..n]
    l5Sent,         \* the bytes written to the backend
    l5Resp,         \* forward_request's response
    l5Stop,         \* what ended forward_request's read loop, "none" before
    l5Out,          \* handle_client's response
    l5Written       \* the bytes written to the client

rwVars == <<rwReq, rwAddr, rwOut, rwCount>>
l5ConnVars ==
    <<l5Counter, l5RequestCount, l5Client, l5Backend, l5pc, l5Addr, l5Buffer, l5Sent,
      l5Resp, l5Stop, l5Out, l5Written>>
l5Vars == <<l5Status, l5Message, l5Response, l5ConnVars>>
selVars == <<start, calls>>
connVars ==
    <<accepted, client, backend, pc, buf, expected, sel, count, bsock, sent,
      response, respExpected, outcome, cmsg, cout, closedBefore, attempts,
      acceptErrs>>
vars == <<COUNTER, selVars, connVars, rwVars, l5Vars>>

Conns == 1..MaxConns

(***************************************************************************)
(* next_backend_with_count.                                                *)
(***************************************************************************)
\* COUNTER.fetch_add(1, Relaxed): the new value; the addition wraps.
fetch_add(counter) == (counter + 1) % (CounterMax + 1)

\* What a call that fetched `fetched` can return: (BACKENDS[idx], count + 1).
\* When count + 1 overflows, a build with overflow checks (the dev and test
\* profiles) panics and a build without them wraps to 0.
next_backend_with_count(fetched) ==
    LET idx == fetched % Len(BACKENDS)
    IN  IF fetched + 1 > CounterMax
        THEN { [panicked |-> TRUE, backend |-> None, count |-> None],
               [panicked |-> FALSE, backend |-> idx, count |-> 0] }
        ELSE { [panicked |-> FALSE, backend |-> idx, count |-> fetched + 1] }

\* A sequential caller, as the unit tests call next_backend.
Call ==
    /\ Len(calls) < MaxCalls
    /\ \E r \in next_backend_with_count(COUNTER) :
        calls' = Append(calls, r)
    /\ COUNTER' = fetch_add(COUNTER)
    /\ UNCHANGED <<start, connVars, rwVars, l5Vars>>

(***************************************************************************)
(* main: the accept loop.                                                  *)
(***************************************************************************)
Over(c) == pc[c] \in {"Closed", "Panicked"}

\* A faulty variant: a handler's panic ends the accept loop.
AcceptUnlessPanicked ==
    /\ \A d \in Conns : pc[d] # "Panicked"
    /\ accepted < MaxConns
    /\ LET c == accepted + 1
       IN  /\ client[c].present
           /\ accepted' = c
           /\ closedBefore' = [closedBefore EXCEPT ![c] = {d \in Conns : Over(d)}]
           /\ IF client[c].addr = NoAddr
              THEN /\ pc' = [pc EXCEPT ![c] = "Closed"]
                   /\ outcome' = [outcome EXCEPT ![c] = "no_addr"]
              ELSE /\ pc' = [pc EXCEPT ![c] = "ReadingHeaders"]
                   /\ UNCHANGED outcome
    /\ UNCHANGED <<COUNTER, selVars, rwVars, l5Vars, acceptErrs, client, backend, buf,
                   expected, sel, count, bsock, sent, response, respExpected, cmsg,
                   cout, attempts>>

\* A faulty variant: the cursor advances when a connection is accepted.
AcceptCounting ==
    /\ accepted < MaxConns
    /\ LET c == accepted + 1
       IN  /\ client[c].present
           /\ accepted' = c
           /\ closedBefore' = [closedBefore EXCEPT ![c] = {d \in Conns : Over(d)}]
           /\ IF client[c].addr = NoAddr
              THEN /\ pc' = [pc EXCEPT ![c] = "Closed"]
                   /\ outcome' = [outcome EXCEPT ![c] = "no_addr"]
              ELSE /\ pc' = [pc EXCEPT ![c] = "ReadingHeaders"]
                   /\ UNCHANGED outcome
    /\ COUNTER' = fetch_add(COUNTER)
    /\ UNCHANGED <<selVars, rwVars, l5Vars, acceptErrs, client, backend, buf,
                   expected, sel, count, bsock, sent, response, respExpected, cmsg,
                   cout, attempts>>

\* listener.accept() returns connection c and its handler is spawned;
\* handle_client returns at once when peer_addr() fails.
Accept ==
    /\ accepted < MaxConns
    /\ LET c == accepted + 1
       IN  /\ client[c].present
           /\ accepted' = c
           /\ closedBefore' = [closedBefore EXCEPT ![c] = {d \in Conns : Over(d)}]
           /\ IF client[c].addr = NoAddr
              THEN /\ pc' = [pc EXCEPT ![c] = "Closed"]
                   /\ outcome' = [outcome EXCEPT ![c] = "no_addr"]
              ELSE /\ pc' = [pc EXCEPT ![c] = "ReadingHeaders"]
                   /\ UNCHANGED outcome
    /\ UNCHANGED <<COUNTER, selVars, rwVars, l5Vars, acceptErrs, client, backend, buf,
                   expected, sel, count, bsock, sent, response, respExpected, cmsg,
                   cout, attempts>>

\* listener.accept() returns Err: `Err(_) => continue`.
AcceptErr ==
    /\ acceptErrs < MaxAcceptErrs
    /\ acceptErrs' = acceptErrs + 1
    /\ UNCHANGED <<COUNTER, selVars, rwVars, l5Vars, accepted, client, backend, pc, buf,
                   expected, sel, count, bsock, sent, response, respExpected, outcome,
                   cmsg, cout, closedBefore, attempts>>

(***************************************************************************)
(* read_request: one stream.read(&mut tmp).await and what follows it up to *)
(* the next read or the return.                                            *)
(***************************************************************************)
\* A faulty variant: end of stream returns what was buffered, as the first loop of
\* forward_request does.
read_request_headers_eof_some(c, n) ==
    LET buf1 == buf[c] \o tmp(client[c], Len(buf[c]), n)
        header_end == header_end_of(buf1)
        content_length == request_content_length(header_lines(buf1, header_end), 0)
        expected_len == header_end + 4 + content_length
    IN  IF n = ReadErr
        THEN [buf |-> buf[c], expected |-> None, next |-> "None"]
        ELSE IF n = 0
        THEN [buf |-> buf[c], expected |-> None, next |-> "Some"]
        ELSE IF Len(buf1) > MaxBuffered
        THEN [buf |-> buf1, expected |-> None, next |-> "None"]
        ELSE IF header_end = None
        THEN [buf |-> buf1, expected |-> None, next |-> "ReadingHeaders"]
        ELSE IF Len(buf1) < expected_len
        THEN [buf |-> buf1, expected |-> expected_len, next |-> "ReadingBody"]
        ELSE [buf |-> buf1, expected |-> expected_len, next |-> "Some"]

\* A faulty variant: the cap applies only while no terminator has been found.
read_request_headers_cap_unless_found(c, n) ==
    LET buf1 == buf[c] \o tmp(client[c], Len(buf[c]), n)
        header_end == header_end_of(buf1)
        content_length == request_content_length(header_lines(buf1, header_end), 0)
        expected_len == header_end + 4 + content_length
    IN  IF n = ReadErr \/ n = 0
        THEN [buf |-> buf[c], expected |-> None, next |-> "None"]
        ELSE IF header_end = None /\ Len(buf1) > MaxBuffered
        THEN [buf |-> buf1, expected |-> None, next |-> "None"]
        ELSE IF header_end = None
        THEN [buf |-> buf1, expected |-> None, next |-> "ReadingHeaders"]
        ELSE IF Len(buf1) < expected_len
        THEN [buf |-> buf1, expected |-> expected_len, next |-> "ReadingBody"]
        ELSE [buf |-> buf1, expected |-> expected_len, next |-> "Some"]

\* The first loop (while header_end.is_none()), after a read returned n.
read_request_headers(c, n) ==
    LET buf1 == buf[c] \o tmp(client[c], Len(buf[c]), n)
        header_end == header_end_of(buf1)
        content_length == request_content_length(header_lines(buf1, header_end), 0)
        expected_len == header_end + 4 + content_length
    IN  IF n = ReadErr \/ n = 0
        THEN [buf |-> buf[c], expected |-> None, next |-> "None"]
        ELSE IF Len(buf1) > MaxBuffered
        THEN [buf |-> buf1, expected |-> None, next |-> "None"]
        ELSE IF header_end = None
        THEN [buf |-> buf1, expected |-> None, next |-> "ReadingHeaders"]
        ELSE IF Len(buf1) < expected_len
        THEN [buf |-> buf1, expected |-> expected_len, next |-> "ReadingBody"]
        ELSE [buf |-> buf1, expected |-> expected_len, next |-> "Some"]

\* The second loop (while buf.len() < expected_len), after a read returned n.
read_request_body(c, n) ==
    LET buf1 == buf[c] \o tmp(client[c], Len(buf[c]), n)
    IN  IF n = ReadErr
        THEN [buf |-> buf[c], expected |-> expected[c], next |-> "None"]
        ELSE IF n = 0
        THEN [buf |-> buf[c], expected |-> expected[c], next |-> "Some"]
        ELSE IF Len(buf1) < expected[c]
        THEN [buf |-> buf1, expected |-> expected[c], next |-> "ReadingBody"]
        ELSE [buf |-> buf1, expected |-> expected[c], next |-> "Some"]

read_request(c, n) ==
    IF pc[c] = "ReadingHeaders" THEN read_request_headers(c, n)
    ELSE read_request_body(c, n)

\* handle_client, step 2: on None it returns, on Some it goes on to select.
ClientRead(c) ==
    /\ pc[c] \in {"ReadingHeaders", "ReadingBody"}
    /\ \E n \in read(client[c], Len(buf[c])) :
        LET r == read_request(c, n)
        IN  /\ buf' = [buf EXCEPT ![c] = r.buf]
            /\ expected' = [expected EXCEPT ![c] = r.expected]
            /\ pc' = [pc EXCEPT ![c] =
                        IF r.next = "None" THEN "Closed"
                        ELSE IF r.next = "Some" THEN "SelectingBackend"
                        ELSE r.next]
            /\ outcome' = [outcome EXCEPT ![c] =
                        IF r.next = "None" THEN "no_message" ELSE @]
    /\ UNCHANGED <<COUNTER, selVars, rwVars, l5Vars, acceptErrs, accepted, client, backend, sel, count,
                   bsock, sent, response, respExpected, cmsg, cout, closedBefore,
                   attempts>>

\* handle_client, step 3: next_backend_with_count(), whose fetch_add read
\* `fetched` and stored `stored`.  A panic ends the task.
SelectWith(c, fetched, stored) ==
    /\ pc[c] = "SelectingBackend"
    /\ \E r \in next_backend_with_count(fetched) :
        IF r.panicked
        THEN /\ pc' = [pc EXCEPT ![c] = "Panicked"]
             /\ outcome' = [outcome EXCEPT ![c] = "panic"]
             /\ UNCHANGED <<sel, count>>
        ELSE /\ pc' = [pc EXCEPT ![c] = "Connecting"]
             /\ sel' = [sel EXCEPT ![c] = r.backend]
             /\ count' = [count EXCEPT ![c] = r.count]
             /\ UNCHANGED outcome
    /\ COUNTER' = stored
    /\ UNCHANGED <<selVars, rwVars, l5Vars, acceptErrs, accepted, client, backend, buf, expected, bsock,
                   sent, response, respExpected, cmsg, cout, closedBefore, attempts>>

\* A faulty variant: a load and a store in place of fetch_add; the load may see the
\* counter as it was before another handler's store.
SelectRacy(c) ==
    \E stale \in {COUNTER, IF COUNTER > 0 THEN COUNTER - 1 ELSE COUNTER} :
        SelectWith(c, stale, fetch_add(stale))

\* A faulty variant: the selector is a lock that a handler keeps until it has
\* its response.
SelectLocked(c) ==
    /\ \A d \in Conns \ {c} :
        pc[d] \notin {"Connecting", "WritingRequest", "ReadingResponseHeaders",
                      "ReadingResponseBody"}
    /\ SelectWith(c, COUNTER, fetch_add(COUNTER))

\* A faulty variant: the cursor advances only when the backend selected is up.
SelectOnSuccess(c) ==
    SelectWith(c, COUNTER, IF backend[c].connect THEN fetch_add(COUNTER) ELSE COUNTER)

Select(c) == SelectWith(c, COUNTER, fetch_add(COUNTER))

(***************************************************************************)
(* forward_request.                                                        *)
(***************************************************************************)
\* A faulty variant: on None the handler returns without writing anything.
ForwardNoneSilent(c) ==
    /\ pc' = [pc EXCEPT ![c] = "Closed"]
    /\ outcome' = [outcome EXCEPT ![c] = "bad_gateway"]
    /\ UNCHANGED cmsg

\* forward_request returned None: handle_client is about to write the 502.
ForwardNone(c) ==
    /\ pc' = [pc EXCEPT ![c] = "WritingResponse"]
    /\ outcome' = [outcome EXCEPT ![c] = "bad_gateway"]
    /\ cmsg' = [cmsg EXCEPT ![c] = BAD_GATEWAY]

\* forward_request returned Some(resp): handle_client is about to write it.
ForwardSome(c, resp) ==
    /\ pc' = [pc EXCEPT ![c] = "WritingResponse"]
    /\ outcome' = [outcome EXCEPT ![c] = "relay"]
    /\ cmsg' = [cmsg EXCEPT ![c] = resp]

\* A faulty variant: after a refused connection the handler tries the next
\* backend of the pool once.
ConnectRetry(c) ==
    /\ pc[c] = "Connecting"
    /\ attempts' = [attempts EXCEPT ![c] =
                        IF @ = <<>> THEN <<sel[c]>>
                        ELSE Append(@, (sel[c] + 1) % Len(BACKENDS))]
    /\ IF backend[c].connect
       THEN /\ pc' = [pc EXCEPT ![c] = "WritingRequest"]
            /\ bsock' = [bsock EXCEPT ![c] = "open"]
            /\ UNCHANGED <<outcome, cmsg>>
       ELSE IF attempts[c] = <<>>
       THEN UNCHANGED <<pc, bsock, outcome, cmsg>>
       ELSE /\ ForwardNone(c)
            /\ UNCHANGED bsock
    /\ UNCHANGED <<COUNTER, selVars, rwVars, l5Vars, acceptErrs, accepted, client, backend, buf,
                   expected, sel, count, sent, response, respExpected, cout,
                   closedBefore>>

\* TcpStream::connect(backend).await.ok()?, with the backend that
\* handle_client selected.
Connect(c) ==
    /\ pc[c] = "Connecting"
    /\ attempts' = [attempts EXCEPT ![c] = Append(@, sel[c])]
    /\ IF backend[c].connect
       THEN /\ pc' = [pc EXCEPT ![c] = "WritingRequest"]
            /\ bsock' = [bsock EXCEPT ![c] = "open"]
            /\ UNCHANGED <<outcome, cmsg>>
       ELSE /\ ForwardNone(c)
            /\ UNCHANGED bsock
    /\ UNCHANGED <<COUNTER, selVars, rwVars, l5Vars, acceptErrs, accepted, client, backend, buf, expected,
                   sel, count, sent, response, respExpected, cout, closedBefore>>

\* A faulty variant: a failed write keeps the backend stream past the return.
WriteRequestLeak(c) ==
    /\ pc[c] = "WritingRequest"
    /\ IF backend[c].write
       THEN /\ sent' = [sent EXCEPT ![c] = add_x_forwarded_for(buf[c], client[c].addr)]
            /\ pc' = [pc EXCEPT ![c] = "ReadingResponseHeaders"]
            /\ UNCHANGED <<outcome, cmsg, bsock>>
       ELSE /\ ForwardNone(c)
            /\ UNCHANGED <<bsock, sent>>
    /\ UNCHANGED <<COUNTER, selVars, rwVars, l5Vars, acceptErrs, accepted, client, backend, buf, expected,
                   sel, count, response, respExpected, cout, closedBefore, attempts>>

\* add_x_forwarded_for and backend_stream.write_all(&forwarded).await.ok()?
WriteRequest(c) ==
    /\ pc[c] = "WritingRequest"
    /\ IF backend[c].write
       THEN /\ sent' = [sent EXCEPT ![c] = add_x_forwarded_for(buf[c], client[c].addr)]
            /\ pc' = [pc EXCEPT ![c] = "ReadingResponseHeaders"]
            /\ UNCHANGED <<outcome, cmsg, bsock>>
       ELSE /\ ForwardNone(c)
            /\ bsock' = [bsock EXCEPT ![c] = "closed"]
            /\ UNCHANGED sent
    /\ UNCHANGED <<COUNTER, selVars, rwVars, l5Vars, acceptErrs, accepted, client, backend, buf, expected,
                   sel, count, response, respExpected, cout, closedBefore, attempts>>

\* The first loop (while header_end.is_none()), after a read returned n.
forward_request_headers(c, n) ==
    LET response1 == response[c] \o tmp(backend[c], Len(response[c]), n)
        header_end == header_end_of(response1)
        content_length == response_content_length(header_lines(response1, header_end), None)
        expected_len == header_end + 4 + content_length
    IN  IF n = ReadErr
        THEN [response |-> response[c], expected |-> None, next |-> "None"]
        ELSE IF n = 0
        THEN [response |-> response[c], expected |-> None, next |-> "Some"]
        ELSE IF Len(response1) > MaxBuffered
        THEN [response |-> response1, expected |-> None, next |-> "Some"]
        ELSE IF header_end = None
        THEN [response |-> response1, expected |-> None, next |-> "ReadingResponseHeaders"]
        ELSE IF content_length = None
        THEN [response |-> response1, expected |-> None, next |-> "ReadingResponseBody"]
        ELSE IF Len(response1) < expected_len
        THEN [response |-> response1, expected |-> expected_len, next |-> "ReadingResponseBody"]
        ELSE [response |-> response1, expected |-> expected_len, next |-> "Some"]

\* The body loops, after a read returned n: with a Content-Length
\* (while response.len() < expected_len) and without (while let Ok(n)).
forward_request_body(c, n) ==
    LET response1 == response[c] \o tmp(backend[c], Len(response[c]), n)
        e == respExpected[c]
    IN  IF e # None
        THEN IF n = ReadErr THEN [response |-> response[c], expected |-> e, next |-> "None"]
             ELSE IF n = 0 THEN [response |-> response[c], expected |-> e, next |-> "Some"]
             ELSE IF Len(response1) < e
             THEN [response |-> response1, expected |-> e, next |-> "ReadingResponseBody"]
             ELSE [response |-> response1, expected |-> e, next |-> "Some"]
        ELSE IF n = ReadErr \/ n = 0
             THEN [response |-> response[c], expected |-> e, next |-> "Some"]
             ELSE [response |-> response1, expected |-> e, next |-> "ReadingResponseBody"]

forward_request_read(c, n) ==
    IF pc[c] = "ReadingResponseHeaders" THEN forward_request_headers(c, n)
    ELSE forward_request_body(c, n)

\* One backend_stream.read(&mut tmp).await and what follows it up to the next
\* read or the return, which drops backend_stream.
BackendRead(c) ==
    /\ pc[c] \in {"ReadingResponseHeaders", "ReadingResponseBody"}
    /\ \E n \in read(backend[c], Len(response[c])) :
        LET r == forward_request_read(c, n)
        IN  /\ response' = [response EXCEPT ![c] = r.response]
            /\ respExpected' = [respExpected EXCEPT ![c] = r.expected]
            /\ IF r.next = "None"
               THEN ForwardNone(c) /\ bsock' = [bsock EXCEPT ![c] = "closed"]
               ELSE IF r.next = "Some"
               THEN ForwardSome(c, r.response) /\ bsock' = [bsock EXCEPT ![c] = "closed"]
               ELSE /\ pc' = [pc EXCEPT ![c] = r.next]
                    /\ UNCHANGED <<outcome, cmsg, bsock>>
    /\ UNCHANGED <<COUNTER, selVars, rwVars, l5Vars, acceptErrs, accepted, client, backend, buf, expected,
                   sel, count, sent, cout, closedBefore, attempts>>

\* handle_client, step 5 or the None arm: let _ = stream.write_all(..).await,
\* then the handler returns and the client stream is dropped.
WriteResponse(c) ==
    /\ pc[c] = "WritingResponse"
    /\ cout' = [cout EXCEPT ![c] = IF client[c].end = "err" THEN <<>> ELSE cmsg[c]]
    /\ pc' = [pc EXCEPT ![c] = "Closed"]
    /\ UNCHANGED <<COUNTER, selVars, rwVars, l5Vars, acceptErrs, accepted, client, backend, buf, expected,
                   sel, count, bsock, sent, response, respExpected, outcome, cmsg,
                   closedBefore, attempts>>

\* handle_client(mut stream: TcpStream, ..): the handler owns the client
\* stream from its spawn to its return or panic, which drops it.
stream(c) ==
    IF pc[c] = "Idle" THEN "none"
    ELSE IF pc[c] \in {"Closed", "Panicked"} THEN "closed"
    ELSE "open"

handle_client(c) ==
    \/ ClientRead(c)
    \/ Select(c)
    \/ Connect(c)
    \/ WriteRequest(c)
    \/ BackendRead(c)
    \/ WriteResponse(c)

(***************************************************************************)
(* The header rewriter on its own.                                         *)
(***************************************************************************)
\* One call add_x_forwarded_for(rwOut, a), as forward_request makes it.
Rewrite ==
    /\ rwCount < MaxRewrites
    /\ \E a \in RwAddrs :
        /\ rwReq' = rwOut
        /\ rwAddr' = a
        /\ rwOut' = add_x_forwarded_for(rwOut, a)
    /\ rwCount' = rwCount + 1
    /\ UNCHANGED <<COUNTER, selVars, connVars, l5Vars>>

(***************************************************************************)
(* lab_05, the reference solution: error_response.                         *)
(***************************************************************************)
\* format!("{}", n) of a number.
RECURSIVE to_string(_)
to_string(n) ==
    IF n < 10 THEN <<Digits[n + 1]>>
    ELSE to_string(n \div 10) \o <<Digits[(n % 10) + 1]>>

HttpVersion == <<"H", "T", "T", "P", "/", "1", ".", "1", " ">>
ReasonBadGateway == <<"B", "a", "d", " ", "G", "a", "t", "e", "w", "a", "y">>
ReasonUnavailable == <<"S", "e", "r", "v", "i", "c", "e", " ", "U", "n", "a", "v", "a", "i", "l", "a", "b", "l", "e">>
ReasonError == <<"E", "r", "r", "o", "r">>
ErrorHeadersA ==
    <<"\r", "\n", "C", "o", "n", "t", "e", "n", "t", "-", "T", "y", "p", "e", ":", " ",
      "t", "e", "x", "t", "/", "p", "l", "a", "i", "n", "\r", "\n", "C", "o", "n", "t",
      "e", "n", "t", "-", "L", "e", "n", "g", "t", "h", ":", " ">>
ErrorHeadersB ==
    <<"\r", "\n", "C", "o", "n", "n", "e", "c", "t", "i", "o", "n", ":", " ", "c", "l",
      "o", "s", "e", "\r", "\n", "\r", "\n">>

\* A faulty variant: the declared length is one more than the message's.
error_response_long(status, message) ==
    HttpVersion \o to_string(status) \o <<" ">>
    \o (IF status = 502 THEN ReasonBadGateway
        ELSE IF status = 503 THEN ReasonUnavailable ELSE ReasonError)
    \o ErrorHeadersA \o to_string(Len(message) + 1) \o ErrorHeadersB \o message

error_response(status, message) ==
    HttpVersion \o to_string(status) \o <<" ">>
    \o (IF status = 502 THEN ReasonBadGateway
        ELSE IF status = 503 THEN ReasonUnavailable ELSE ReasonError)
    \o ErrorHeadersA \o to_string(Len(message)) \o ErrorHeadersB \o message

\* The message handle_client passes and the one test_error_response passes.
BackendUnavailable ==
    <<"B", "a", "d", " ", "G", "a", "t", "e", "w", "a", "y", " ", "-", " ", "B", "a",
      "c", "k", "e", "n", "d", " ", "u", "n", "a", "v", "a", "i", "l", "a", "b", "l",
      "e">>
BackendDownMessage == <<"B", "a", "c", "k", "e", "n", "d", " ", "d", "o", "w", "n">>
\* The statuses and messages error_response is called with.
ErStatuses == {502, 503, 500}
ErMessages ==
    {BackendUnavailable, BackendDownMessage}
    \cup UNION {[1..n -> {"o", " "}] : n \in 0..MaxMessage}

\* One call error_response(status, message).
ErrorResponse ==
    /\ \E status \in ErStatuses, message \in ErMessages :
        /\ l5Status' = status
        /\ l5Message' = message
        /\ l5Response' = error_response(status, message)
    /\ UNCHANGED <<COUNTER, selVars, connVars, rwVars, l5ConnVars>>

(***************************************************************************)
(* lab_05, the reference solution: add_forwarded_header, forward_request   *)
(* and handle_client, for one connection.                                  *)
(***************************************************************************)
\* str::to_lowercase; on the bytes of the model it changes the ASCII letters
\* only (U+FFFD has no lower case).
to_lowercase(s) == to_ascii_lowercase(s)

\* str::contains
contains(s, pat) == Position(s, pat) # None

add_forwarded_header(request, client_addr) ==
    LET request_str == from_utf8_lossy(request)
        pos == Position(request_str, CRLF)
        first_line == SubSeq(request_str, 1, pos + 2)
        rest == SubSeq(request_str, pos + 3, Len(request_str))
    IN  IF pos # None
        THEN IF contains(to_lowercase(rest), XffPrefix)
             THEN first_line \o XffHeader \o client_addr \o CRLF \o rest
             ELSE first_line \o XffHeader \o client_addr \o CRLF \o rest
        ELSE request

\* unwrap_or_else(|_| "unknown".to_string())
Unknown == <<"u", "n", "k", "n", "o", "w", "n">>

\* tokio::time::timeout elapsed.
Timeout == -3

\* The results a read into the BufferSize bytes of `buffer` can have.
read_buffer(peer, consumed) ==
    LET avail == Len(peer.bytes) - consumed
    IN  IF avail > 0 THEN 1..Min(BufferSize, avail)
        ELSE IF peer.end = "eof" THEN {0}
        ELSE IF peer.end = "err" THEN {ReadErr}
        ELSE {}

\* main: listener.accept() and the spawn; handle_client up to its read.
L5Accept ==
    /\ l5pc = "Idle"
    /\ l5Client.present
    /\ l5Addr' = IF l5Client.addr = NoAddr THEN Unknown ELSE l5Client.addr
    /\ l5RequestCount' = fetch_add(l5RequestCount)
    /\ l5pc' = "Reading"
    /\ UNCHANGED <<COUNTER, selVars, connVars, rwVars, l5Status, l5Message, l5Response,
                   l5Counter, l5Client, l5Backend, l5Buffer, l5Sent, l5Resp, l5Stop,
                   l5Out, l5Written>>

\* The one stream.read(&mut buffer).await, and next_backend().
L5ClientRead ==
    /\ l5pc = "Reading"
    /\ \E n \in read_buffer(l5Client, 0) :
        IF n = 0 \/ n = ReadErr
        THEN /\ l5pc' = "Closed"
             /\ UNCHANGED <<l5Buffer, l5Counter>>
        ELSE /\ l5Buffer' = SubSeq(l5Client.bytes, 1, n)
             /\ l5Counter' = fetch_add(l5Counter)
             /\ l5pc' = "Connecting"
    /\ UNCHANGED <<COUNTER, selVars, connVars, rwVars, l5Status, l5Message, l5Response,
                   l5RequestCount, l5Client, l5Backend, l5Addr, l5Sent, l5Resp, l5Stop,
                   l5Out, l5Written>>

\* forward_request returned None: error_response(502, ..) is the response.
L5ForwardNone ==
    /\ l5Out' = error_response(502, BackendUnavailable)
    /\ l5pc' = "WritingResponse"

\* TcpStream::connect(backend).await
L5Connect ==
    /\ l5pc = "Connecting"
    /\ IF l5Backend.connect
       THEN l5pc' = "WritingRequest" /\ UNCHANGED l5Out
       ELSE L5ForwardNone
    /\ UNCHANGED <<COUNTER, selVars, connVars, rwVars, l5Status, l5Message, l5Response,
                   l5Counter, l5RequestCount, l5Client, l5Backend, l5Addr, l5Buffer,
                   l5Sent, l5Resp, l5Stop, l5Written>>

\* add_forwarded_header and backend_conn.write_all(&modified_request).await
L5WriteRequest ==
    /\ l5pc = "WritingRequest"
    /\ IF l5Backend.write
       THEN /\ l5Sent' = add_forwarded_header(l5Buffer, l5Addr)
            /\ l5pc' = "ReadingResponse"
            /\ UNCHANGED l5Out
       ELSE /\ L5ForwardNone
            /\ UNCHANGED l5Sent
    /\ UNCHANGED <<COUNTER, selVars, connVars, rwVars, l5Status, l5Message, l5Response,
                   l5Counter, l5RequestCount, l5Client, l5Backend, l5Addr, l5Buffer,
                   l5Resp, l5Stop, l5Written>>

\* A faulty variant: the loop's exits are told apart, and only end of stream
\* with bytes buffered gives Some.
L5BackendReadStrict ==
    /\ l5pc = "ReadingResponse"
    /\ \E n \in read_buffer(l5Backend, Len(l5Resp)) \cup {Timeout} :
        IF n \notin {0, ReadErr, Timeout}
        THEN /\ l5Resp' = l5Resp \o tmp(l5Backend, Len(l5Resp), n)
             /\ UNCHANGED <<l5pc, l5Out, l5Stop>>
        ELSE /\ l5Stop' = (IF n = 0 THEN "eof" ELSE IF n = ReadErr THEN "err" ELSE "timeout")
             /\ UNCHANGED l5Resp
             /\ IF l5Resp = <<>> \/ n # 0
                THEN L5ForwardNone
                ELSE l5Out' = l5Resp /\ l5pc' = "WritingResponse"
    /\ UNCHANGED <<COUNTER, selVars, connVars, rwVars, l5Status, l5Message, l5Response,
                   l5Counter, l5RequestCount, l5Client, l5Backend, l5Addr, l5Buffer,
                   l5Sent, l5Written>>

\* One timeout(500 ms, backend_conn.read(&mut buffer)).await of the loop, and
\* after the loop `if response.is_empty() { None } else { Some(response) }`.
\* The timeout can elapse at any read: the backend may pause at any point.
L5BackendRead ==
    /\ l5pc = "ReadingResponse"
    /\ \E n \in read_buffer(l5Backend, Len(l5Resp)) \cup {Timeout} :
        IF n \notin {0, ReadErr, Timeout}
        THEN /\ l5Resp' = l5Resp \o tmp(l5Backend, Len(l5Resp), n)
             /\ UNCHANGED <<l5pc, l5Out, l5Stop>>
        ELSE /\ l5Stop' = (IF n = 0 THEN "eof" ELSE IF n = ReadErr THEN "err" ELSE "timeout")
             /\ UNCHANGED l5Resp
             /\ IF l5Resp = <<>>
                THEN L5ForwardNone
                ELSE l5Out' = l5Resp /\ l5pc' = "WritingResponse"
    /\ UNCHANGED <<COUNTER, selVars, connVars, rwVars, l5Status, l5Message, l5Response,
                   l5Counter, l5RequestCount, l5Client, l5Backend, l5Addr, l5Buffer,
                   l5Sent, l5Written>>

\* stream.write_all(&response).await, and the return.
L5WriteResponse ==
    /\ l5pc = "WritingResponse"
    /\ l5Written' = IF l5Client.end = "err" THEN <<>> ELSE l5Out
    /\ l5pc' = "Closed"
    /\ UNCHANGED <<COUNTER, selVars, connVars, rwVars, l5Status, l5Message, l5Response,
                   l5Counter, l5RequestCount, l5Client, l5Backend, l5Addr, l5Buffer,
                   l5Sent, l5Resp, l5Stop, l5Out>>

L5HandleClient ==
    \/ L5ClientRead
    \/ L5Connect
    \/ L5WriteRequest
    \/ L5BackendRead
    \/ L5WriteResponse

(***************************************************************************)
(* The peers of the model.                                                 *)
(***************************************************************************)
Pad(n) == [i \in 1..n |-> "a"]
Message(lines, body) == JoinCrlf(lines) \o CRLFCRLF \o body

LineXff1 ==
    <<"X", "-", "F", "o", "r", "w", "a", "r", "d", "e", "d", "-", "F", "o", "r", ":", " ", "1">>
LineCl2 ==
    <<"C", "o", "n", "t", "e", "n", "t", "-", "L", "e", "n", "g", "t", "h", ":", " ", "2">>
LineCl3 ==
    <<"c", "o", "n", "t", "e", "n", "t", "-", "l", "e", "n", "g", "t", "h", ":", "3">>
LineObs == <<"K", ":", "xFF">>

Addr == <<"1", ".", "2", ":", "3">>

ReqMin == Message(<<<<"G">>>>, <<>>)
ReqCl2 == Message(<<<<"P">>, LineCl2>>, <<"h", "i">>)
ReqXffCl3 == Message(<<<<"P">>, LineXff1, LineCl3>>, <<"a", "\r", "\n">>)
ReqObsCl2 == Message(<<<<"P">>, LineObs, LineCl2>>, <<"h", "i">>)
\* More than MaxBuffered bytes with no terminator among them.
ReqOverflow == <<"G", "\r", "\n", "K", ":">> \o Pad(MaxBuffered)
\* The terminator arrives only after MaxBuffered bytes.
ReqLateEnd == Message(<<<<"G">>, <<"K", ":">> \o Pad(MaxBuffered - 7)>>, <<>>)

\* The client closes one byte short of its Content-Length; the client sends
\* one byte more than its Content-Length.
ReqShortBody == SubSeq(ReqCl2, 1, Len(ReqCl2) - 1)
ReqExtra == ReqCl2 \o <<"G">>

RespMin == Message(<<<<"H">>>>, <<>>)
RespCl2 == Message(<<<<"H">>, LineCl2>>, <<"o", "k">>)
RespNoCl == Message(<<<<"H">>>>, <<"b", "o", "d", "y">>)
\* A header block of MaxBuffered - 1 bytes, terminator included, and a body.
RespLongHead ==
    Message(<<<<"H">>, LineCl3, <<"K", ":">> \o Pad(MaxBuffered - 28)>>, <<"a", "b", "c">>)

RespShortBody == SubSeq(RespCl2, 1, Len(RespCl2) - 1)
RespExtra == RespCl2 \o <<"H">>

\* A request without Content-Length, and a byte the client sent after it.
ReqMinExtra == ReqMin \o <<"G">>
\* A response without Content-Length whose header block, terminator included,
\* is MaxBuffered - 1 bytes, and its body.
RespNoClLongHead ==
    Message(<<<<"H">>, <<"K", ":">> \o Pad(MaxBuffered - 10)>>, <<"b", "o", "d", "y">>)
\* A request whose header block, terminator included, is MaxBuffered - 1
\* bytes, and its body of three bytes.
ReqLongHead ==
    Message(<<<<"P">>, LineCl3, <<"K", ":">> \o Pad(MaxBuffered - 28)>>, <<"a", "b", "c">>)
\* Content-Length headers whose value is not a number, and messages with
\* such a header or with two Content-Length headers.
LineClBad ==
    <<"C", "o", "n", "t", "e", "n", "t", "-", "L", "e", "n", "g", "t", "h", ":", " ", "x">>
LineClColon ==
    <<"C", "o", "n", "t", "e", "n", "t", "-", "L", "e", "n", "g", "t", "h", ":", " ", "2",
      ":", "x">>
ReqBadCl == Message(<<<<"P">>, LineClBad>>, <<>>)
ReqColonCl == Message(<<<<"P">>, LineClColon>>, <<>>)
ReqTwoCl == Message(<<<<"P">>, LineCl3, LineCl2>>, <<"h", "i">>)
RespBadCl == Message(<<<<"H">>, LineClBad>>, <<"b", "o", "d", "y">>)
RespColonCl == Message(<<<<"H">>, LineClColon>>, <<"o", "k">>)
RespTwoCl == Message(<<<<"H">>, LineCl3, LineCl2>>, <<"o", "k">>)
\* More than MaxBuffered bytes with no terminator among them.
RespOverflow == <<"H", "\r", "\n", "K", ":">> \o Pad(MaxBuffered)

BackendDown == Backend(FALSE, FALSE, <<>>, "eof")
BackendMin == Backend(TRUE, TRUE, RespMin, "eof")

\* The connections of the whole proxy: short messages, so that several
\* handlers interleave.
SysScenarios ==
    { <<Client(Addr, ReqMin, "open"), BackendDown>>,
      <<Client(Addr, ReqMin, "open"), BackendMin>>,
      <<Client(Addr, <<"G", "\r", "\n">>, "eof"), BackendDown>> }

\* The connections that exercise the framing: every client with a backend
\* that answers, and every backend with a client that sends ReqMin.
FrameClients ==
    { Client(Addr, ReqCl2, "open"),
      Client(Addr, ReqCl2, "eof"),
      Client(Addr, ReqXffCl3, "open"),
      Client(Addr, ReqObsCl2, "open"),
      Client(Addr, <<>>, "eof"),
      Client(Addr, SubSeq(ReqCl2, 1, 22), "eof"),
      Client(Addr, SubSeq(ReqMin, 1, 4), "err"),
      Client(Addr, ReqOverflow, "open"),
      Client(Addr, ReqLateEnd, "open"),
      Client(Addr, ReqShortBody, "eof"),
      Client(Addr, ReqExtra, "open"),
      Client(Addr, ReqMinExtra, "open"),
      Client(Addr, ReqLongHead, "open"),
      Client(Addr, ReqBadCl, "open"),
      Client(Addr, ReqColonCl, "open"),
      Client(Addr, ReqTwoCl, "open"),
      Client(NoAddr, ReqMin, "open") }
FrameBackends ==
    { Backend(TRUE, TRUE, RespCl2, "open"),
      Backend(TRUE, TRUE, RespCl2, "eof"),
      Backend(TRUE, TRUE, RespNoCl, "eof"),
      Backend(TRUE, TRUE, RespLongHead, "eof"),
      Backend(TRUE, TRUE, RespShortBody, "eof"),
      Backend(TRUE, TRUE, RespExtra, "eof"),
      Backend(TRUE, TRUE, RespNoCl, "err"),
      Backend(TRUE, TRUE, RespShortBody, "err"),
      Backend(TRUE, TRUE, RespNoCl, "open"),
      Backend(TRUE, TRUE, <<>>, "eof"),
      Backend(TRUE, TRUE, <<>>, "err"),
      Backend(TRUE, TRUE, <<>>, "open"),
      Backend(TRUE, TRUE, <<"H", "\r">>, "eof"),
      Backend(TRUE, TRUE, RespOverflow, "eof"),
      Backend(TRUE, TRUE, RespNoClLongHead, "eof"),
      Backend(TRUE, TRUE, RespBadCl, "eof"),
      Backend(TRUE, TRUE, RespColonCl, "eof"),
      Backend(TRUE, TRUE, RespTwoCl, "open"),
      Backend(TRUE, FALSE, <<>>, "eof"),
      BackendDown }
FrameScenarios ==
    { <<k, BackendMin>> : k \in FrameClients }
    \cup { <<Client(Addr, ReqMin, "open"), b>> : b \in FrameBackends }

(***************************************************************************)
(* Specifications.                                                         *)
(***************************************************************************)
\* No handler has started.
ConnsIdle ==
    /\ accepted = 0
    /\ pc = [c \in Conns |-> "Idle"]
    /\ buf = [c \in Conns |-> <<>>]
    /\ expected = [c \in Conns |-> None]
    /\ sel = [c \in Conns |-> None]
    /\ count = [c \in Conns |-> None]
    /\ bsock = [c \in Conns |-> "none"]
    /\ sent = [c \in Conns |-> <<>>]
    /\ response = [c \in Conns |-> <<>>]
    /\ respExpected = [c \in Conns |-> None]
    /\ outcome = [c \in Conns |-> "pending"]
    /\ cmsg = [c \in Conns |-> <<>>]
    /\ cout = [c \in Conns |-> <<>>]
    /\ closedBefore = [c \in Conns |-> {}]
    /\ attempts = [c \in Conns |-> <<>>]
    /\ acceptErrs = 0

NoPeers ==
    /\ client = [c \in Conns |-> NoClient]
    /\ backend = [c \in Conns |-> BackendDown]

RwIdle ==
    /\ rwReq = <<>>
    /\ rwOut = <<>>
    /\ rwAddr = <<>>
    /\ rwCount = 0

L5ErrorIdle ==
    /\ l5Status = 0
    /\ l5Message = <<>>
    /\ l5Response = <<>>

\* lab_05's statics at their initial values, and its handler not started.
L5ConnIdle ==
    /\ l5Counter = 0
    /\ l5RequestCount = 0
    /\ l5pc = "Idle"
    /\ l5Addr = <<>>
    /\ l5Buffer = <<>>
    /\ l5Sent = <<>>
    /\ l5Resp = <<>>
    /\ l5Stop = "none"
    /\ l5Out = <<>>
    /\ l5Written = <<>>

L5Idle ==
    /\ L5ErrorIdle
    /\ L5ConnIdle
    /\ l5Client = NoClient
    /\ l5Backend = BackendDown

\* static COUNTER: AtomicUsize = AtomicUsize::new(0), and nobody calling
\* next_backend_with_count but the handlers.
CounterInit ==
    /\ COUNTER = 0
    /\ start = 0
    /\ calls = <<>>

\* The proxy with MaxConns clients.
Init ==
    /\ CounterInit
    /\ ConnsIdle
    /\ \E f \in [Conns -> SysScenarios] :
        /\ client = [c \in Conns |-> f[c][1]]
        /\ backend = [c \in Conns |-> f[c][2]]
    /\ RwIdle
    /\ L5Idle

Next == Accept \/ \E c \in Conns : handle_client(c)

Spec == Init /\ [][Next]_vars

\* The proxy with one client that exercises the framing and one more client.
FrameInit ==
    /\ CounterInit
    /\ ConnsIdle
    /\ \E f \in FrameScenarios, g \in SysScenarios :
        /\ client = [c \in Conns |-> IF c = 1 THEN f[1] ELSE IF c = 2 THEN g[1] ELSE NoClient]
        /\ backend = [c \in Conns |-> IF c = 1 THEN f[2] ELSE IF c = 2 THEN g[2] ELSE BackendDown]
    /\ RwIdle
    /\ L5Idle

SpecFrame == FrameInit /\ [][Next]_vars

\* next_backend_with_count called in sequence, from any counter value.
SelectInit ==
    /\ COUNTER \in 0..CounterMax
    /\ start = COUNTER
    /\ calls = <<>>
    /\ ConnsIdle
    /\ NoPeers
    /\ RwIdle
    /\ L5Idle

SpecSelect == SelectInit /\ [][Call]_vars

\* add_x_forwarded_for applied to any request of RwRequests.
RwInit ==
    /\ rwOut \in RwRequests
    /\ rwReq = rwOut
    /\ rwAddr = <<>>
    /\ rwCount = 0
    /\ CounterInit
    /\ ConnsIdle
    /\ NoPeers
    /\ L5Idle

SpecRewrite == RwInit /\ [][Rewrite]_vars

\* Both 502s: lab_06's handle_client with a backend that fails in each of the
\* three ways, and lab_05's error_response called with any message.
ErrorBackends ==
    { BackendDown,
      Backend(TRUE, FALSE, <<>>, "eof"),
      Backend(TRUE, TRUE, <<>>, "err") }
ErrorInit ==
    /\ CounterInit
    /\ ConnsIdle
    /\ \E b \in ErrorBackends, e \in {"open", "err"} :
        /\ client = [c \in Conns |-> IF c = 1 THEN Client(Addr, ReqMin, e) ELSE NoClient]
        /\ backend = [c \in Conns |-> IF c = 1 THEN b ELSE BackendDown]
    /\ RwIdle
    /\ L5Idle

ErrorNext == ErrorResponse \/ Next

SpecError == ErrorInit /\ [][ErrorNext]_vars

\* The accept loop with accept errors, after any number of requests: the
\* counter may be at its largest value, where a handler can panic.  The
\* first connection ends in each way a handler can end.
ListenerScenarios ==
    { <<Client(Addr, ReqMin, "open"), BackendMin>>,
      <<Client(Addr, ReqMin, "open"), BackendDown>>,
      <<Client(Addr, <<"G", "\r", "\n">>, "eof"), BackendDown>>,
      <<Client(Addr, ReqOverflow, "open"), BackendMin>>,
      <<Client(NoAddr, ReqMin, "open"), BackendMin>> }
ListenerInit ==
    /\ COUNTER \in {0, CounterMax}
    /\ start = COUNTER
    /\ calls = <<>>
    /\ ConnsIdle
    /\ \E f \in ListenerScenarios :
        /\ client = [c \in Conns |-> IF c = 1 THEN f[1]
                                     ELSE IF c = 2 THEN Client(Addr, ReqMin, "open")
                                     ELSE NoClient]
        /\ backend = [c \in Conns |-> IF c = 1 THEN f[2]
                                      ELSE IF c = 2 THEN BackendMin ELSE BackendDown]
    /\ RwIdle
    /\ L5Idle

ListenerNext == AcceptErr \/ Next

SpecListener == ListenerInit /\ [][ListenerNext]_vars

\* A connection whose peer stops sending without closing (the client in its
\* headers; the backend before its first byte, in its headers, after them),
\* and a second connection whose peers do not.
StallScenarios ==
    { <<Client(Addr, <<"G", "\r", "\n">>, "open"), BackendMin>>,
      <<Client(Addr, ReqMin, "open"), Backend(TRUE, TRUE, <<>>, "open")>>,
      <<Client(Addr, ReqMin, "open"), Backend(TRUE, TRUE, <<"H", "\r">>, "open")>>,
      <<Client(Addr, ReqMin, "open"), Backend(TRUE, TRUE, RespMin, "open")>>,
      <<Client(Addr, ReqMin, "open"), BackendMin>> }
StallInit ==
    /\ CounterInit
    /\ ConnsIdle
    /\ \E f \in StallScenarios, g \in SysScenarios :
        /\ client = [c \in Conns |-> IF c = 1 THEN f[1] ELSE IF c = 2 THEN g[1] ELSE NoClient]
        /\ backend = [c \in Conns |-> IF c = 1 THEN f[2] ELSE IF c = 2 THEN g[2] ELSE BackendDown]
    /\ RwIdle
    /\ L5Idle

SpecStall == StallInit /\ [][Next]_vars

\* The same under the scheduling of the runtime: the listener and every
\* handler that can take a step takes it.
SpecStallFair ==
    /\ StallInit
    /\ [][Next]_vars
    /\ WF_vars(Accept)
    /\ \A c \in Conns : WF_vars(handle_client(c))

\* The connections that end a handler on each of its paths: no request, an
\* oversized head, a client read error, a backend that refuses, fails the
\* write or fails the read, a relayed response, and a client that has reset
\* its connection when the message is written.
ReleaseScenarios ==
    { <<Client(Addr, <<>>, "eof"), BackendMin>>,
      <<Client(Addr, ReqOverflow, "open"), BackendMin>>,
      <<Client(Addr, SubSeq(ReqMin, 1, 4), "err"), BackendMin>>,
      <<Client(Addr, ReqMin, "open"), BackendDown>>,
      <<Client(Addr, ReqMin, "open"), Backend(TRUE, FALSE, <<>>, "eof")>>,
      <<Client(Addr, ReqMin, "open"), Backend(TRUE, TRUE, <<>>, "err")>>,
      <<Client(Addr, ReqMin, "open"), BackendMin>>,
      <<Client(Addr, ReqMin, "err"), BackendMin>>,
      <<Client(Addr, ReqMin, "err"), BackendDown>> }
ReleaseInit ==
    /\ CounterInit
    /\ ConnsIdle
    /\ \E f, g \in ReleaseScenarios :
        /\ client = [c \in Conns |-> IF c = 1 THEN f[1] ELSE IF c = 2 THEN g[1] ELSE NoClient]
        /\ backend = [c \in Conns |-> IF c = 1 THEN f[2] ELSE IF c = 2 THEN g[2] ELSE BackendDown]
    /\ RwIdle
    /\ L5Idle

SpecRelease == ReleaseInit /\ [][Next]_vars

\* The proxy before a pool of which any backend may be down: every client
\* sends the same request, and the backend a handler reaches is up or down.
PoolInit ==
    /\ COUNTER \in 0..(Len(BACKENDS) - 1)
    /\ start = COUNTER
    /\ calls = <<>>
    /\ ConnsIdle
    /\ client = [c \in Conns |-> Client(Addr, ReqMin, "open")]
    /\ backend \in [Conns -> {BackendDown, BackendMin}]
    /\ RwIdle
    /\ L5Idle

SpecPool == PoolInit /\ [][Next]_vars

\* lab_05's proxy with one client.  The requests: without and with a body,
\* with an X-Forwarded-For header, with a byte that is not UTF-8 in the body,
\* without a CRLF, longer than the read buffer, none.
ReqXff == Message(<<<<"G">>, LineXff1>>, <<>>)
ReqObsBody == Message(<<<<"G">>>>, <<"xFF">>)
ReqNoCrlf == <<"G">>
L5Clients ==
    { Client(Addr, ReqMin, "open"),
      Client(Addr, ReqCl2, "open"),
      Client(Addr, ReqXff, "open"),
      Client(Addr, ReqObsBody, "open"),
      Client(Addr, ReqNoCrlf, "open"),
      Client(Addr, ReqXffCl3, "open"),
      Client(NoAddr, ReqMin, "err"),
      Client(Addr, <<>>, "eof"),
      Client(Addr, <<>>, "err") }
L5Backends ==
    { BackendDown,
      Backend(TRUE, FALSE, <<>>, "eof"),
      BackendMin,
      Backend(TRUE, TRUE, RespNoCl, "open"),
      Backend(TRUE, TRUE, RespNoCl, "err"),
      Backend(TRUE, TRUE, <<>>, "eof"),
      Backend(TRUE, TRUE, <<>>, "err"),
      Backend(TRUE, TRUE, <<>>, "open") }
L5Init ==
    /\ CounterInit
    /\ ConnsIdle
    /\ NoPeers
    /\ RwIdle
    /\ L5ErrorIdle
    /\ L5ConnIdle
    /\ l5Client \in L5Clients
    /\ l5Backend \in L5Backends

L5Next == L5Accept \/ L5HandleClient

SpecL5 == L5Init /\ [][L5Next]_vars

(***************************************************************************)
(* Notions the properties are stated in.                                   *)
(***************************************************************************)
Terminated(m) == header_end_of(m) # None
HeadOf(m) == SubSeq(m, 1, header_end_of(m))
BodyOf(m) == SubSeq(m, header_end_of(m) + 5, Len(m))
\* Start line and header lines, as the bytes between CRLFs.
LinesOf(m) == split_crlf(HeadOf(m))
XffIndexes(lines) == {i \in 1..Len(lines) : IsXffLine(lines[i])}
FirstXff(lines) == CHOOSE i \in XffIndexes(lines) : \A j \in XffIndexes(lines) : i <= j
XffName ==
    <<"X", "-", "F", "o", "r", "w", "a", "r", "d", "e", "d", "-", "F", "o", "r", ":", " ">>

\* A message with one Content-Length header, whose value is the length of
\* the body that follows the terminator.
WellFormed(m) ==
    /\ Terminated(m)
    /\ LET lines == LinesOf(m)
           cl == {i \in 1..Len(lines) : IsContentLengthLine(lines[i])}
       IN  /\ Cardinality(cl) = 1
           /\ \A i \in cl :
                parse_usize(trim(split_colon_nth1(lines[i]))) = Len(BodyOf(m))

\* The request a backend is to receive: the client's request with the first
\* X-Forwarded-For line augmented, or with a new one after the last header.
IdealForward(m, addr) ==
    LET lines == LinesOf(m)
        new == IF XffIndexes(lines) = {} THEN Append(lines, XffName \o addr)
               ELSE [lines EXCEPT ![FirstXff(lines)] = @ \o <<",", " ">> \o addr]
    IN  JoinCrlf(new) \o CRLFCRLF \o BodyOf(m)

Selected == {c \in Conns : sel[c] # None}

StatusLine502 == <<"H", "T", "T", "P", "/", "1", ".", "1", " ", "5", "0", "2">>

\* The listener takes the next client whenever one is waiting.
StillAccepting ==
    (accepted < MaxConns /\ client[accepted + 1].present) => ENABLED Accept

(***************************************************************************)
(* C1.  Round-robin order: from any counter value c, the k-th sequential   *)
(* call of next_backend_with_count returns BACKENDS[(c + k - 1) mod len],  *)
(* so any len consecutive calls return every backend once.                 *)
(* Refuted at the call that observes the largest counter value: with       *)
(* overflow checks, count + 1 panics and the call returns nothing.         *)
(***************************************************************************)
C1_RoundRobinOrder ==
    /\ \A k \in 1..Len(calls) :
        /\ ~calls[k].panicked
        /\ calls[k].backend = (start + k - 1) % Len(BACKENDS)
    /\ \A k \in 1..(Len(calls) - Len(BACKENDS) + 1) :
        {calls[k + i].backend : i \in 0..(Len(BACKENDS) - 1)} = 0..(Len(BACKENDS) - 1)

(***************************************************************************)
(* C2.  Atomic selection: in every interleaving of the handlers, the       *)
(* counter equals the number of selections made (no lost update), the      *)
(* selections observed distinct consecutive counter values, and each of    *)
(* the n backends was chosen floor(K/n) or ceil(K/n) times out of K.       *)
(***************************************************************************)
C2_AtomicSelection ==
    LET K == Cardinality(Selected)
        n == Len(BACKENDS)
    IN  /\ COUNTER = start + K
        /\ {count[c] - 1 : c \in Selected} = start..(start + K - 1)
        /\ \A i \in 0..(n - 1) :
            Cardinality({c \in Selected : sel[c] = i}) \in {K \div n, (K + n - 1) \div n}
        /\ \A c \in Conns :
            pc[c] \in {"Connecting", "WritingRequest", "ReadingResponseHeaders",
                       "ReadingResponseBody", "WritingResponse"} => c \in Selected

\* All handlers have selected and none has gone further; the first accepted
\* selected after the second.
C2_Witness ==
    /\ \A c \in Conns : pc[c] = "Connecting"
    /\ count[1] > count[2]

(***************************************************************************)
(* C3.  When the backend connection fails, the handler of a fully framed   *)
(* request hands the client a 502 response with a non-empty body, the      *)
(* client receives it unless it has reset the connection, and the          *)
(* listener goes on accepting.                                             *)
(***************************************************************************)
C3_BadGatewayWhenBackendsFail ==
    /\ \A c \in Conns :
        (pc[c] = "Closed" /\ Terminated(client[c].bytes) /\ ~backend[c].connect) =>
            /\ outcome[c] = "bad_gateway"
            /\ starts_with(cmsg[c], StatusLine502)
            /\ Terminated(cmsg[c])
            /\ BodyOf(cmsg[c]) # <<>>
            /\ client[c].end # "err" => cout[c] = cmsg[c]
    /\ StillAccepting

\* Every backend is down; two requests in sequence each got the 502.
C3_Witness ==
    /\ \A c \in Conns : ~backend[c].connect
    /\ 1 \in closedBefore[2]
    /\ pc[2] = "Closed"
    /\ starts_with(cout[1], StatusLine502)
    /\ starts_with(cout[2], StatusLine502)

(***************************************************************************)
(* C4.  When the request holds an X-Forwarded-For header (any case of the  *)
(* name) with value v, add_x_forwarded_for gives that header the value     *)
(* "v, <client address>" and creates no further X-Forwarded-For header.    *)
(* Refuted for a value v that is not valid UTF-8: from_utf8_lossy turns    *)
(* each invalid byte of v into U+FFFD.                                     *)
(***************************************************************************)
C4_XffAugmented ==
    (rwCount >= 1 /\ Terminated(rwReq) /\ XffIndexes(LinesOf(rwReq)) # {}) =>
        LET inL == LinesOf(rwReq)
            outL == LinesOf(rwOut)
            i == FirstXff(inL)
        IN  /\ Terminated(rwOut)
            /\ Len(outL) = Len(inL)
            /\ outL[i] = inL[i] \o <<",", " ">> \o rwAddr
            /\ Cardinality(XffIndexes(outL)) = Cardinality(XffIndexes(inL))

(***************************************************************************)
(* C5.  When the request holds no X-Forwarded-For header,                  *)
(* add_x_forwarded_for adds exactly one line "X-Forwarded-For: <client     *)
(* address>", after all the headers and before the blank line that ends    *)
(* the header block; the body follows as before.                           *)
(***************************************************************************)
C5_NewXffAppended ==
    (rwCount >= 1 /\ Terminated(rwReq) /\ XffIndexes(LinesOf(rwReq)) = {}) =>
        LET inL == LinesOf(rwReq)
            outL == LinesOf(rwOut)
        IN  /\ Terminated(rwOut)
            /\ Len(outL) = Len(inL) + 1
            /\ outL[Len(outL)] = XffName \o rwAddr
            /\ XffIndexes(outL) = {Len(outL)}
            /\ BodyOf(rwOut) = BodyOf(rwReq)

\* A request with two headers, none of them X-Forwarded-For, and a body.
C5_Witness ==
    /\ rwCount = 1
    /\ Terminated(rwReq)
    /\ XffIndexes(LinesOf(rwReq)) = {}
    /\ Len(LinesOf(rwReq)) = 3
    /\ BodyOf(rwReq) # <<>>
    /\ Len(rwOut) = Len(rwReq) + Len(XffName) + Len(rwAddr) + 2

(***************************************************************************)
(* C6.  Frame of the rewrite: for a request with a header terminator,      *)
(* add_x_forwarded_for leaves the start line, every header line but the    *)
(* X-Forwarded-For line, the terminator and the body as they were.         *)
(* Refuted for a header line that is not valid UTF-8: from_utf8_lossy      *)
(* turns each invalid byte into U+FFFD.                                    *)
(***************************************************************************)
C6_RewriteFrame ==
    (rwCount >= 1 /\ Terminated(rwReq)) =>
        LET inL == LinesOf(rwReq)
            outL == LinesOf(rwOut)
        IN  /\ Terminated(rwOut)
            /\ BodyOf(rwOut) = BodyOf(rwReq)
            /\ IF XffIndexes(inL) # {}
               THEN /\ Len(outL) = Len(inL)
                    /\ \A i \in (1..Len(inL)) \ {FirstXff(inL)} : outL[i] = inL[i]
               ELSE /\ Len(outL) = Len(inL) + 1
                    /\ \A i \in 1..Len(inL) : outL[i] = inL[i]

(***************************************************************************)
(* C7.  Request round trip: for a request with a valid Content-Length,     *)
(* however its bytes are split across reads, the bytes written to the      *)
(* backend are the original start line and headers with the                *)
(* X-Forwarded-For line, the terminator, and the client's body unchanged.  *)
(* Refuted for a header that is not valid UTF-8 (see C6).                  *)
(***************************************************************************)
C7_RequestRoundTrip ==
    \A c \in Conns :
        (client[c].present /\ WellFormed(client[c].bytes) /\ sent[c] # <<>>) =>
            sent[c] = IdealForward(client[c].bytes, client[c].addr)

(***************************************************************************)
(* C8.  Response round trip: for a backend response with a valid           *)
(* Content-Length, all of it sent, however its bytes are split across      *)
(* reads, the message handed to the client is the backend's bytes.         *)
(* Refuted when the read that completes the header terminator brings the   *)
(* buffer past the cap: forward_request returns what it has, short of the  *)
(* body.                                                                   *)
(***************************************************************************)
C8_ResponseRoundTrip ==
    \A c \in Conns :
        (WellFormed(backend[c].bytes) /\ sent[c] # <<>>
            /\ pc[c] \in {"WritingResponse", "Closed"}) =>
            /\ cmsg[c] = backend[c].bytes
            /\ (pc[c] = "Closed" /\ client[c].end # "err") => cout[c] = backend[c].bytes

(***************************************************************************)
(* C9.  Silent close: when the client closes before a header terminator    *)
(* has arrived, read_request yields no message and the handler goes        *)
(* straight to Closed: nothing is written to the client, no backend is     *)
(* selected (the counter counts only the selections of others) and no      *)
(* backend connection is opened.                                           *)
(***************************************************************************)
C9_SilentClose ==
    /\ \A c \in Conns :
        (client[c].present /\ client[c].addr # NoAddr /\ client[c].end = "eof"
            /\ ~Terminated(client[c].bytes)) =>
            /\ pc[c] \in {"Idle", "ReadingHeaders", "Closed"}
            /\ pc[c] = "Closed" => outcome[c] = "no_message"
            /\ sel[c] = None
            /\ bsock[c] = "none"
            /\ sent[c] = <<>>
            /\ cmsg[c] = <<>>
            /\ cout[c] = <<>>
    /\ COUNTER = Cardinality(Selected)

\* A client that closed in the middle of its headers: its handler read all
\* it sent and is over, and a later connection was answered.
C9_Witness ==
    /\ client[1].end = "eof"
    /\ ~Terminated(client[1].bytes)
    /\ Len(buf[1]) > 0
    /\ buf[1] = client[1].bytes
    /\ pc[1] = "Closed"
    /\ 1 \in closedBefore[2]
    /\ pc[2] = "Closed"
    /\ cout[2] # <<>>

(***************************************************************************)
(* C10.  Header overflow: a request that sends more than the cap without   *)
(* a terminator among the first cap bytes is rejected by read_request:     *)
(* its handler is over only once it has buffered more than the cap, no     *)
(* backend is selected, no backend socket is opened, nothing is forwarded  *)
(* or written, and the listener goes on accepting.                         *)
(***************************************************************************)
C10_HeaderOverflowRejected ==
    /\ \A c \in Conns :
        (client[c].present /\ client[c].addr # NoAddr
            /\ Len(client[c].bytes) > MaxBuffered
            /\ ~Terminated(SubSeq(client[c].bytes, 1, MaxBuffered))) =>
            /\ pc[c] \in {"Idle", "ReadingHeaders", "Closed"}
            /\ pc[c] = "Closed" =>
                (outcome[c] = "no_message" /\ Len(buf[c]) > MaxBuffered)
            /\ sel[c] = None
            /\ bsock[c] = "none"
            /\ sent[c] = <<>>
            /\ cmsg[c] = <<>>
            /\ cout[c] = <<>>
    /\ COUNTER = Cardinality(Selected)
    /\ StillAccepting

\* A request whose terminator came after the cap was rejected, and the
\* connection accepted after that got its backend's response.
C10_Witness ==
    /\ Len(client[1].bytes) > MaxBuffered
    /\ Terminated(client[1].bytes)
    /\ ~Terminated(SubSeq(client[1].bytes, 1, MaxBuffered))
    /\ pc[1] = "Closed"
    /\ Len(buf[1]) > MaxBuffered
    /\ 1 \in closedBefore[2]
    /\ pc[2] = "Closed"
    /\ outcome[2] = "relay"
    /\ cout[2] = backend[2].bytes

\* read_request returned Some(buf) to the handler of c.
Framed(c) ==
    \/ pc[c] \in {"SelectingBackend", "Connecting", "WritingRequest",
                  "ReadingResponseHeaders", "ReadingResponseBody",
                  "WritingResponse", "Panicked"}
    \/ pc[c] = "Closed" /\ outcome[c] \in {"relay", "bad_gateway"}

\* The lines of m's header block that are Content-Length headers.
ContentLengthLines(m) ==
    {i \in 2..Len(LinesOf(m)) : IsContentLengthLine(LinesOf(m)[i])}

\* Message m holds past its terminator the bytes its Content-Length declares.
BodyAsDeclared(m) ==
    \A i \in ContentLengthLines(m) :
        LET v == parse_usize(trim(split_colon_nth1(LinesOf(m)[i])))
        IN  v # None => Len(BodyOf(m)) = v

(***************************************************************************)
(* C11.  Content-Length framing: a request that read_request returns, and  *)
(* a response that forward_request returns, with a Content-Length header   *)
(* holds exactly the declared number of bytes past the terminator.         *)
(* Refuted: on end of stream the body loops break and the short message    *)
(* is returned, and every read is appended whole, so bytes the peer sent   *)
(* past the declared length are part of the message.                       *)
(***************************************************************************)
C11_ContentLengthFraming ==
    \A c \in Conns :
        /\ (Framed(c) /\ Terminated(buf[c])) => BodyAsDeclared(buf[c])
        /\ (outcome[c] = "relay" /\ Terminated(cmsg[c])) => BodyAsDeclared(cmsg[c])

(***************************************************************************)
(* C12.  When the request was written to the backend and the forward step  *)
(* ended with no response byte received, the handler hands the client the  *)
(* synthesized 502, not an empty response.                                 *)
(* Refuted when the backend closes before its first byte: the header loop  *)
(* returns Some of the empty buffer.                                       *)
(***************************************************************************)
C12_NoBytesIsFailure ==
    \A c \in Conns :
        (sent[c] # <<>> /\ response[c] = <<>>
            /\ pc[c] \in {"WritingResponse", "Closed"}) =>
            /\ outcome[c] = "bad_gateway"
            /\ starts_with(cmsg[c], StatusLine502)

Contains(m, pat) == \E i \in 0..(Len(m) - Len(pat)) : SubSeq(m, i + 1, i + Len(pat)) = pat
BadGatewayText == <<"B", "a", "d", " ", "G", "a", "t", "e", "w", "a", "y">>
StatusLineBadGateway ==
    <<"H", "T", "T", "P", "/", "1", ".", "1", " ", "5", "0", "2", " ", "B", "a", "d",
      " ", "G", "a", "t", "e", "w", "a", "y">>
ContentTypePlain ==
    <<"C", "o", "n", "t", "e", "n", "t", "-", "T", "y", "p", "e", ":", " ", "t", "e",
      "x", "t", "/", "p", "l", "a", "i", "n">>
ContentLengthName == <<"C", "o", "n", "t", "e", "n", "t", "-", "L", "e", "n", "g", "t", "h", ":", " ">>
ConnectionClose == <<"C", "o", "n", "n", "e", "c", "t", "i", "o", "n", ":", " ", "c", "l", "o", "s", "e">>

\* m is a 502 that names the error, carries `message` and declares the
\* length of its body.
Declares502(m, message) ==
    /\ starts_with(m, StatusLine502)
    /\ Terminated(m)
    /\ ContentLengthLines(m) # {}
    /\ \A i \in ContentLengthLines(m) :
        parse_usize(trim(split_colon_nth1(LinesOf(m)[i]))) = Len(BodyOf(m))
    /\ Contains(m, BadGatewayText)
    /\ Contains(m, message)

(***************************************************************************)
(* C13.  As stated: every synthesized 502, lab_06's and lab_05's           *)
(* error_response(502, message) for every message, declares the length of  *)
(* its body, starts with "HTTP/1.1 502", contains "Bad Gateway" and the    *)
(* message, and has a non-empty body.                                      *)
(* Too strong for the empty message: error_response(502, "") has an empty  *)
(* body.                                                                   *)
(***************************************************************************)
C13_Accurate502NonEmpty ==
    /\ \A c \in Conns :
        (outcome[c] = "bad_gateway" /\ pc[c] \in {"WritingResponse", "Closed"}) =>
            /\ Declares502(cmsg[c], BadGatewayText)
            /\ BodyOf(cmsg[c]) # <<>>
    /\ l5Status = 502 =>
        /\ Declares502(l5Response, l5Message)
        /\ BodyOf(l5Response) # <<>>

(***************************************************************************)
(* C13, amended.  Every synthesized 502 declares the length of its body,   *)
(* starts with "HTTP/1.1 502" and contains "Bad Gateway" and the message;  *)
(* its body is the message, so it is non-empty when the message is, as     *)
(* lab_06's "Bad Gateway" is.                                              *)
(***************************************************************************)
C13_Accurate502 ==
    /\ \A c \in Conns :
        (outcome[c] = "bad_gateway" /\ pc[c] \in {"WritingResponse", "Closed"}) =>
            /\ Declares502(cmsg[c], BadGatewayText)
            /\ BodyOf(cmsg[c]) = BadGatewayText
    /\ l5Status = 502 =>
        /\ Declares502(l5Response, l5Message)
        /\ BodyOf(l5Response) = l5Message

\* lab_06 has answered a failed forward with its 502 and lab_05 has built
\* the 502 of its handle_client, whose length has two digits.
C13_Witness ==
    /\ pc[1] = "Closed"
    /\ outcome[1] = "bad_gateway"
    /\ cout[1] = cmsg[1]
    /\ cout[1] # <<>>
    /\ l5Status = 502
    /\ Len(l5Message) = 33
    /\ Len(BodyOf(l5Response)) = 33

\* m is exactly: status line, Content-Type, Content-Length, Connection,
\* blank line, message.
Shape502(m, message) ==
    /\ Terminated(m)
    /\ Len(LinesOf(m)) = 4
    /\ LinesOf(m)[1] = StatusLineBadGateway
    /\ LinesOf(m)[2] = ContentTypePlain
    /\ starts_with(LinesOf(m)[3], ContentLengthName)
    /\ LET v == SubSeq(LinesOf(m)[3], Len(ContentLengthName) + 1, Len(LinesOf(m)[3]))
       IN  v # <<>> /\ (\A i \in 1..Len(v) : IsDigit(v[i])) /\ DecimalValue(v) = Len(message)
    /\ LinesOf(m)[4] = ConnectionClose
    /\ BodyOf(m) = message

(***************************************************************************)
(* C14.  The bytes handed to the client on a forward failure are exactly   *)
(* "HTTP/1.1 502 Bad Gateway", "Content-Type: text/plain",                 *)
(* "Content-Length: <N>", "Connection: close", a blank line and the        *)
(* message, in lab_06 and in lab_05.                                       *)
(* Refuted in lab_06: its 502 has the Content-Length header only.          *)
(***************************************************************************)
C14_Shape502 ==
    /\ \A c \in Conns :
        (outcome[c] = "bad_gateway" /\ pc[c] \in {"WritingResponse", "Closed"}) =>
            Shape502(cmsg[c], BodyOf(cmsg[c]))
    /\ l5Status = 502 => Shape502(l5Response, l5Message)

\* forward_request is over for c.
Forwarded(c) == pc[c] \in {"WritingResponse", "Closed"} /\ attempts[c] # <<>>

\* The bytes the backend sent end a response by its Content-Length.
CompleteByLength(m) ==
    /\ Terminated(m)
    /\ \E i \in ContentLengthLines(m) :
        LET v == parse_usize(trim(split_colon_nth1(LinesOf(m)[i])))
        IN  v # None /\ Len(BodyOf(m)) >= v

\* A read of the response failed: the backend reset the connection after
\* bytes that do not end a response, and the handler had read them all.
HitReadError(c) ==
    /\ Forwarded(c)
    /\ sent[c] # <<>>
    /\ backend[c].end = "err"
    /\ response[c] = backend[c].bytes
    /\ Len(backend[c].bytes) <= MaxBuffered
    /\ ~CompleteByLength(backend[c].bytes)

\* One connection attempt per framed request, to the backend selected.
NoRetry ==
    \A c \in Conns :
        /\ Len(attempts[c]) <= 1
        /\ attempts[c] # <<>> => (Framed(c) /\ sel[c] # None /\ attempts[c] = <<sel[c]>>)
        /\ (Framed(c) /\ pc[c] \notin {"SelectingBackend", "Connecting", "Panicked"}) =>
            Len(attempts[c]) = 1
        /\ bsock[c] = "open" => Len(attempts[c]) = 1

(***************************************************************************)
(* C15.  One connection attempt per framed request, to the backend         *)
(* selected, never a second; and a request whose forward failed at the     *)
(* connect, at the write or at a read (an error, or no byte received)      *)
(* ends with the 502.                                                      *)
(* Refuted in its last part: a backend that closes before its first byte   *)
(* gives an empty response (C12), and a read error while a response        *)
(* without Content-Length is drained ends `while let Ok(n)` and the bytes  *)
(* received are relayed.  No second attempt is made in any case.           *)
(***************************************************************************)
C15_NoRetryAlways502 ==
    /\ NoRetry
    /\ \A c \in Conns :
        (Forwarded(c)
            /\ (~backend[c].connect \/ ~backend[c].write \/ HitReadError(c)
                \/ (sent[c] # <<>> /\ response[c] = <<>>))) =>
            outcome[c] = "bad_gateway"

(***************************************************************************)
(* C16.  Listener survival: whatever the handlers have done (relayed,      *)
(* answered 502, closed silently, rejected an overflow, panicked) and      *)
(* whatever accept errors occurred, the accept loop takes the next         *)
(* incoming connection, and every accepted connection has its own handler. *)
(***************************************************************************)
C16_ListenerSurvives ==
    /\ StillAccepting
    /\ \A c \in Conns : c <= accepted <=> pc[c] # "Idle"

\* A handler panicked and an accept failed; the connection after the panic
\* was accepted and served.
C16_Witness ==
    /\ pc[1] = "Panicked"
    /\ acceptErrs = 1
    /\ 1 \in closedBefore[2]
    /\ pc[2] = "Closed"
    /\ outcome[2] = "relay"
    /\ cout[2] = backend[2].bytes

\* The handler of c has started and is not over.
Running(c) == pc[c] \notin {"Idle", "Closed", "Panicked"}

\* The I/O the handler of c is suspended at can complete: its own peer has
\* sent bytes, closed or reset.  Connects and writes complete or fail.
Ready(c) ==
    /\ pc[c] \in {"ReadingHeaders", "ReadingBody"} => read(client[c], Len(buf[c])) # {}
    /\ pc[c] \in {"ReadingResponseHeaders", "ReadingResponseBody"} =>
        read(backend[c], Len(response[c])) # {}

(***************************************************************************)
(* C17.  No head-of-line blocking: wherever the other handlers are         *)
(* suspended, the listener accepts the next connection, and a handler      *)
(* whose own I/O can complete can take its next step; so a handler runs    *)
(* from accept to Closed while another is suspended for ever.              *)
(***************************************************************************)
C17_NoHeadOfLineBlocking ==
    /\ StillAccepting
    /\ \A c \in Conns : (Running(c) /\ Ready(c)) => ENABLED handle_client(c)

\* The first handler waits for a backend that sends nothing and does not
\* close; the second was accepted meanwhile and has relayed its response.
C17_Witness ==
    /\ pc[1] = "ReadingResponseHeaders"
    /\ ~Ready(1)
    /\ 1 \notin closedBefore[2]
    /\ pc[2] = "Closed"
    /\ outcome[2] = "relay"
    /\ cout[2] = backend[2].bytes

(***************************************************************************)
(* C18.  Forward progress: under fair scheduling, every handler that has   *)
(* forwarded its request eventually writes a message to its client and     *)
(* reaches Closed, even when the backend takes the request and then        *)
(* neither completes a response nor closes.                                *)
(***************************************************************************)
C18_ForwardProgress ==
    \A c \in Conns :
        (sent[c] # <<>>) ~> (pc[c] = "Closed" /\ outcome[c] \in {"relay", "bad_gateway"})

(***************************************************************************)
(* C19.  Per-connection state machine: a backend is selected only for a    *)
(* framed request, a connection is attempted only to the backend selected, *)
(* the request is written only on an open backend connection, the response *)
(* is read only after the request was written, and the one message written *)
(* to the client of a framed request is the backend's response or the 502, *)
(* never both; an unframed request contacts no backend.                    *)
(***************************************************************************)
C19_StateMachine ==
    \A c \in Conns :
        /\ sel[c] # None => Framed(c)
        /\ attempts[c] # <<>> => (sel[c] # None /\ attempts[c] = <<sel[c]>>)
        /\ bsock[c] # "none" => attempts[c] # <<>>
        /\ sent[c] # <<>> => bsock[c] # "none"
        /\ response[c] # <<>> => sent[c] # <<>>
        /\ outcome[c] = "relay" => (sent[c] # <<>> /\ cmsg[c] = response[c])
        /\ outcome[c] = "bad_gateway" => (attempts[c] # <<>> /\ cmsg[c] = BAD_GATEWAY)
        /\ pc[c] = "WritingResponse" => outcome[c] \in {"relay", "bad_gateway"}
        /\ cout[c] # <<>> =>
            (pc[c] = "Closed" /\ outcome[c] \in {"relay", "bad_gateway"} /\ cout[c] = cmsg[c])
        /\ (pc[c] = "Closed" /\ sel[c] # None) =>
            /\ outcome[c] \in {"relay", "bad_gateway"}
            /\ cout[c] # cmsg[c] => client[c].end = "err"
        /\ (pc[c] = "Closed" /\ sel[c] = None) =>
            (attempts[c] = <<>> /\ sent[c] = <<>> /\ cout[c] = <<>>)

\* Two handlers went through every step: one relayed its backend's response,
\* the other, whose backend refused the connection, wrote the 502.
C19_Witness ==
    \E c, d \in Conns :
        /\ pc[c] = "Closed" /\ pc[d] = "Closed"
        /\ outcome[c] = "relay" /\ response[c] # <<>> /\ cout[c] = response[c]
        /\ outcome[d] = "bad_gateway" /\ bsock[d] = "none" /\ cout[d] = BAD_GATEWAY

(***************************************************************************)
(* C20.  Socket release: a backend stream is open only while its handler   *)
(* is inside forward_request, so on every path to Closed neither the       *)
(* client stream nor a backend stream the handler opened is still open.    *)
(***************************************************************************)
C20_SocketRelease ==
    \A c \in Conns :
        /\ bsock[c] = "open" =>
            pc[c] \in {"WritingRequest", "ReadingResponseHeaders", "ReadingResponseBody"}
        /\ pc[c] = "Closed" =>
            /\ stream(c) = "closed"
            /\ bsock[c] \in {"none", "closed"}
            /\ (attempts[c] # <<>> /\ backend[c].connect) => bsock[c] = "closed"

\* A handler whose backend write failed after the connection was opened
\* answered 502 and is Closed; another relayed a response to a client that
\* had reset its connection, and is Closed.
C20_Witness ==
    \E c, d \in Conns :
        /\ pc[c] = "Closed" /\ outcome[c] = "bad_gateway" /\ bsock[c] = "closed"
        /\ ~backend[c].write
        /\ pc[d] = "Closed" /\ outcome[d] = "relay" /\ bsock[d] = "closed"
        /\ client[d].end = "err" /\ cout[d] = <<>> /\ cmsg[d] # <<>>

(***************************************************************************)
(* C22.  Close-delimited responses: when the backend's response has no     *)
(* Content-Length header, forward_request returns it only once the backend *)
(* has closed its side, and what it returns is every byte the backend      *)
(* sent, in order.                                                         *)
(* Refuted: a read error ends the last loop like an end of stream, and a   *)
(* read that finds the terminator while taking the buffer past the cap     *)
(* returns at once, without the bytes that follow.                         *)
(***************************************************************************)
C22_CloseDelimited ==
    \A c \in Conns :
        (/\ outcome[c] = "relay"
         /\ Terminated(backend[c].bytes)
         /\ ContentLengthLines(backend[c].bytes) = {}) =>
            (backend[c].end = "eof" /\ cmsg[c] = backend[c].bytes)

(***************************************************************************)
(* C23.  For a request with no Content-Length header, however the client's *)
(* bytes are split across reads and whatever the client sent after the     *)
(* terminator, read_request returns once the terminator is seen and the    *)
(* message forwarded to the backend has no byte after its CRLFCRLF.        *)
(* Refuted: every read is appended whole, so bytes that arrive in the read *)
(* that completes the terminator are part of the request.                  *)
(***************************************************************************)
C23_NoLengthEmptyBody ==
    \A c \in Conns :
        (/\ Framed(c)
         /\ Terminated(client[c].bytes)
         /\ ContentLengthLines(client[c].bytes) = {}) =>
            /\ BodyOf(buf[c]) = <<>>
            /\ sent[c] # <<>> => BodyOf(sent[c]) = <<>>

(***************************************************************************)
(* C24.  Framer symmetry: as read_request does for a request, when the     *)
(* backend closes before a CRLFCRLF was seen, or more than MaxBuffered     *)
(* bytes are buffered without one, forward_request has no message and the  *)
(* partial bytes are not relayed: a relayed response has its terminator    *)
(* within the cap.                                                         *)
(* Refuted: in both cases forward_request returns Some(response).          *)
(***************************************************************************)
C24_FramerSymmetry ==
    \A c \in Conns :
        outcome[c] = "relay" =>
            (Terminated(cmsg[c]) /\ header_end_of(cmsg[c]) + 4 <= MaxBuffered)

\* Message m holds past its terminator fewer bytes than a Content-Length
\* header of it declares.
ShortOfDeclared(m) ==
    \E i \in ContentLengthLines(m) :
        LET v == parse_usize(trim(split_colon_nth1(LinesOf(m)[i])))
        IN  v # None /\ Len(BodyOf(m)) < v

(***************************************************************************)
(* C25.  When the client closes its sending side after the header          *)
(* terminator and before all the bytes its Content-Length declares have    *)
(* arrived, the request is not framed: no backend is selected, no backend  *)
(* connection is opened and nothing is forwarded.                          *)
(* Refuted: on Ok(0) the body loop breaks and read_request returns Some of *)
(* the short buffer.                                                       *)
(***************************************************************************)
C25_TruncatedNotForwarded ==
    \A c \in Conns :
        (/\ pc[c] \notin {"Idle", "ReadingHeaders", "ReadingBody"}
         /\ client[c].end = "eof"
         /\ Terminated(client[c].bytes)
         /\ ShortOfDeclared(client[c].bytes)) =>
            (sel[c] = None /\ attempts[c] = <<>> /\ bsock[c] = "none" /\ sent[c] = <<>>)

\* Each connection was accepted after the handlers of all earlier ones ended.
Sequential ==
    \A c \in Conns : pc[c] # "Idle" => \A d \in 1..(c - 1) : d \in closedBefore[c]

\* Backend `down` of the pool is down and every other backend is up.
OneDown(down) ==
    \A c \in Selected : backend[c].connect <=> sel[c] # down

(***************************************************************************)
(* C26.  A failing backend consumes its turn: with one backend of the pool *)
(* down and the other up, of two requests served one after the other the   *)
(* second goes to the next backend in cyclic order, the request to the     *)
(* backend that is down ends with the 502 and the other is relayed, so     *)
(* relayed responses and 502s alternate.                                   *)
(***************************************************************************)
C26_FailingBackendKeepsTurn ==
    \A down \in 0..(Len(BACKENDS) - 1) :
        (Sequential /\ OneDown(down)) =>
            \A c \in Conns :
                /\ pc[c] = "Closed" =>
                    outcome[c] = (IF sel[c] = down THEN "bad_gateway" ELSE "relay")
                /\ (c < MaxConns /\ sel[c] # None /\ sel[c + 1] # None) =>
                    sel[c + 1] = (sel[c] + 1) % Len(BACKENDS)
                /\ (c < MaxConns /\ pc[c] = "Closed" /\ pc[c + 1] = "Closed") =>
                    outcome[c] # outcome[c + 1]

\* Three requests in sequence, the first to the backend that is down: a 502,
\* a relayed response, a 502.
C26_Witness ==
    /\ Sequential
    /\ OneDown(sel[1])
    /\ \A c \in Conns : pc[c] = "Closed"
    /\ starts_with(cout[1], StatusLine502)
    /\ cout[2] = RespMin
    /\ starts_with(cout[3], StatusLine502)

C21_PartialIsResponse ==
    l5Stop # "none" =>
        /\ l5Resp = SubSeq(l5Backend.bytes, 1, Len(l5Resp))
        /\ l5Out = (IF l5Resp # <<>> THEN l5Resp
                    ELSE error_response(502, BackendUnavailable))
        /\ (l5pc = "Closed" /\ l5Client.end # "err") => l5Written = l5Out

\* The timeout elapsed after a part of the backend's bytes; the client has
\* received that part.
C21_Witness ==
    /\ l5Stop = "timeout"
    /\ l5Resp # <<>>
    /\ Len(l5Resp) < Len(l5Backend.bytes)
    /\ l5pc = "Closed"
    /\ l5Written = l5Resp

(***************************************************************************)
(* C28.  lab_05's add_forwarded_header: when the request holds an          *)
(* X-Forwarded-For header with value v, that header of the forwarded       *)
(* request reads "v, <client address>" and no further X-Forwarded-For      *)
(* header is added.                                                        *)
(* Refuted: both branches of the test insert a new header line after the   *)
(* start line and leave the existing header as it was.                     *)
(***************************************************************************)
C28_L5XffAugmented ==
    (l5Sent # <<>> /\ Terminated(l5Buffer) /\ XffIndexes(LinesOf(l5Buffer)) # {}) =>
        LET inL == LinesOf(l5Buffer)
            outL == LinesOf(l5Sent)
            i == FirstXff(inL)
        IN  /\ Terminated(l5Sent)
            /\ Len(outL) = Len(inL)
            /\ outL[i] = inL[i] \o <<",", " ">> \o l5Addr
            /\ Cardinality(XffIndexes(outL)) = Cardinality(XffIndexes(inL))

\* The number of places of m where pat occurs.
Occurrences(m, pat) ==
    Cardinality({i \in 0..(Len(m) - Len(pat)) : SubSeq(m, i + 1, i + Len(pat)) = pat})

(***************************************************************************)
(* C29.  lab_05's add_forwarded_header: for a request that holds a CRLF    *)
(* the output holds the line "X-Forwarded-For: <client address>" once more *)
(* than the input, and is the input with that line inserted; a request     *)
(* without a CRLF is returned unchanged.                                   *)
(* Refuted for a request that is not valid UTF-8: the output is built from *)
(* from_utf8_lossy of the whole request, body included.                    *)
(***************************************************************************)
C29_L5InsertOnly ==
    l5Sent # <<>> =>
        LET line == XffHeader \o l5Addr \o CRLF
        IN  IF Position(l5Buffer, CRLF) # None
            THEN /\ Occurrences(l5Sent, line) = Occurrences(l5Buffer, line) + 1
                 /\ \E k \in 0..Len(l5Buffer) :
                        l5Sent = SubSeq(l5Buffer, 1, k) \o line
                                 \o SubSeq(l5Buffer, k + 1, Len(l5Buffer))
            ELSE l5Sent = l5Buffer

(***************************************************************************)
(* C30.  lab_05's handle_client: a request with a Content-Length and a     *)
(* body reaches the backend complete, header block and body, however the   *)
(* client's bytes are split across reads and also when it is longer than   *)
(* the read buffer.                                                        *)
(* Refuted: handle_client reads once and forwards what that read returned. *)
(***************************************************************************)
C30_L5WholeRequest ==
    (/\ l5Sent # <<>>
     /\ Terminated(l5Client.bytes)
     /\ ContentLengthLines(l5Client.bytes) # {}
     /\ BodyOf(l5Client.bytes) # <<>>) =>
        /\ l5Buffer = l5Client.bytes
        /\ Terminated(l5Sent)
        /\ BodyOf(l5Sent) = BodyOf(l5Client.bytes)

(***************************************************************************)
(* C31.  When the request holds several X-Forwarded-For lines,             *)
(* add_x_forwarded_for appends ", <client address>" to the first of them   *)
(* and leaves every later one as it was; no line is merged or dropped and  *)
(* the number of header lines is unchanged.                                *)
(* Refuted for a later X-Forwarded-For line that is not valid UTF-8 (see   *)
(* C6): from_utf8_lossy turns each invalid byte into U+FFFD.               *)
(***************************************************************************)
C31_OnlyFirstXffAugmented ==
    (rwCount >= 1 /\ Terminated(rwReq) /\ Cardinality(XffIndexes(LinesOf(rwReq))) >= 2) =>
        LET inL == LinesOf(rwReq)
            outL == LinesOf(rwOut)
            first == FirstXff(inL)
        IN  /\ Len(outL) = Len(inL)
            /\ XffIndexes(outL) = XffIndexes(inL)
            /\ \A i \in XffIndexes(inL) :
                outL[i] = (IF i = first THEN inL[i] \o <<",", " ">> \o rwAddr ELSE inL[i])

(***************************************************************************)
(* C32.  Chaining of the rewrite: a request without X-Forwarded-For        *)
(* rewritten for address a and then for address b holds one                *)
(* X-Forwarded-For header, "X-Forwarded-For: a, b"; and a rewrite of a     *)
(* request with k >= 1 X-Forwarded-For lines gives a request with k such   *)
(* lines, whose header block ends where a CRLFCRLF first occurs, followed  *)
(* by the body unchanged.                                                  *)
(***************************************************************************)
C32_Chaining ==
    [][ rwCount' = rwCount + 1 =>
          /\ (/\ rwCount = 1
              /\ Terminated(rwReq)
              /\ XffIndexes(LinesOf(rwReq)) = {}) =>
                LET outL == LinesOf(rwOut')
                IN  /\ Terminated(rwOut')
                    /\ Cardinality(XffIndexes(outL)) = 1
                    /\ \A i \in XffIndexes(outL) :
                        outL[i] = XffName \o rwAddr \o <<",", " ">> \o rwAddr'
          /\ (Terminated(rwOut) /\ XffIndexes(LinesOf(rwOut)) # {}) =>
                /\ Terminated(rwOut')
                /\ Cardinality(XffIndexes(LinesOf(rwOut'))) =
                        Cardinality(XffIndexes(LinesOf(rwOut)))
                /\ BodyOf(rwOut') = BodyOf(rwOut)
                /\ Len(rwOut') = header_end_of(rwOut') + 4 + Len(BodyOf(rwOut))
      ]_vars

\* A request with a header and a body, none of its lines X-Forwarded-For,
\* was rewritten for one address and then for another.
C32_Witness ==
    /\ rwCount = 2
    /\ Terminated(rwOut)
    /\ Len(LinesOf(rwOut)) = 3
    /\ BodyOf(rwOut) # <<>>
    /\ \E a, b \in RwAddrs :
        /\ a # b
        /\ rwAddr = b
        /\ XffIndexes(LinesOf(rwOut)) = {3}
        /\ LinesOf(rwOut)[3] = XffName \o a \o <<",", " ">> \o b
        /\ LinesOf(rwReq)[3] = XffName \o a

(***************************************************************************)
(* C33.  The cap of read_request is on the header block: a request whose   *)
(* header block with its terminator is at most MaxBuffered bytes is        *)
(* framed, whatever the size of its body and however its bytes are grouped *)
(* into reads.                                                             *)
(* Refuted: the cap is tested on the whole buffer after every read of the  *)
(* header loop, so a read that brings the terminator and body bytes past   *)
(* the cap ends the connection.                                            *)
(***************************************************************************)
C33_CapOnHeadersOnly ==
    \A c \in Conns :
        (/\ pc[c] \notin {"Idle", "ReadingHeaders", "ReadingBody"}
         /\ client[c].addr # NoAddr
         /\ client[c].end # "err"
         /\ Terminated(client[c].bytes)
         /\ header_end_of(client[c].bytes) + 4 <= MaxBuffered) =>
            Framed(c)

\* The value of a Content-Length header line: what follows the name and the
\* colon, without the white space around it.
ClText(line) == trim(SubSeq(line, Len(ContentLengthPrefix) + 1, Len(line)))
IsNatural(t) == t # <<>> /\ \A i \in 1..Len(t) : IsDigit(t[i])

\* The length message m declares: the value of its last Content-Length
\* header, or `default` when it has none or that value is not a number.
Declared(m, default) ==
    IF ContentLengthLines(m) = {} THEN default
    ELSE LET last == CHOOSE i \in ContentLengthLines(m) :
                        \A j \in ContentLengthLines(m) : j <= i
             t == ClText(LinesOf(m)[last])
         IN  IF IsNatural(t) THEN DecimalValue(t) ELSE default

(***************************************************************************)
(* C34.  A request whose Content-Length value is not a non-negative        *)
(* integer is framed with an empty body, a response with such a value is   *)
(* read until end of stream, and of several Content-Length headers the     *)
(* last one gives the length, in both directions.                          *)
(* Refuted for a value with a colon in it: the code parses the text        *)
(* between the first colon of the line and the next.                       *)
(***************************************************************************)
C34_ContentLengthValue ==
    \A c \in Conns :
        /\ expected[c] # None =>
            expected[c] = header_end_of(buf[c]) + 4 + Declared(buf[c], 0)
        /\ pc[c] = "ReadingResponseBody" =>
            respExpected[c] =
                (IF Declared(response[c], None) = None THEN None
                 ELSE header_end_of(response[c]) + 4 + Declared(response[c], None))

(***************************************************************************)
(* C35.  Every call of next_backend_with_count, the one that observes the  *)
(* largest cursor value included, returns a valid backend without failing, *)
(* and each call returns the backend that follows the previous call's in   *)
(* the cyclic order, across the wrap of the cursor too.                    *)
(* Refuted: the call that observes the largest value can panic while it    *)
(* computes the request count.                                             *)
(***************************************************************************)
C35_WrapAround ==
    \A k \in 1..Len(calls) :
        /\ ~calls[k].panicked
        /\ calls[k].backend \in 0..(Len(BACKENDS) - 1)
        /\ k > 1 => calls[k].backend = (calls[k - 1].backend + 1) % Len(BACKENDS)

====
